---- MODULE Spec2Model ----
(***************************************************************************)
(* Model of the sentinel-py probe engine: the pacing controller            *)
(* (scanner/utils/rate_limiter.py), the port-range validator               *)
(* (scanner/utils/validators.py), the TCP, HTTP and TLS probers            *)
(* (scanner/core/*.py) and the module orchestrator (scanner/modules.py).   *)
(*                                                                         *)
(* Durations are integers in milliseconds (1.0 s = 1000, 0.05 s = 50,      *)
(* 0.01 s = 10).  Python's None is modelled by a boolean "present/given"   *)
(* field next to the value.  Strings the code formats and parses again     *)
(* (the port range "low-high") are sequences of one-character strings.     *)
(***************************************************************************)
EXTENDS Integers, Sequences, FiniteSets, TLC

VARIABLES
    args,          \* the argparse Namespace handed to the orchestrator
    pc,            \* position of run_selected_modules / of the limiter harness
    exc,           \* exception propagating out of the run ("" when none)
    rate_limiter,  \* the RateLimiter built by create_rate_limiter (or None)
    log,           \* observable effects in program order: instantiations,
                   \* wait() calls, sleeps, warnings, network operations
    results,       \* keys of the report dict, in insertion order
    report,        \* values of the report dict, by module
    tcp,           \* locals of the running TCP scan (PortScanResults, loop)
    http,          \* locals of the running HTTP scan
    tls            \* what the TLS scan met: the handshake and the clock

vars == <<args, pc, exc, rate_limiter, log, results, report, tcp, http, tls>>

----------------------------------------------------------------------------
(* Bounds of the model                                                     *)

\* largest number of ports in a range that is actually scanned
MaxSpan == 2
\* number of wait() calls the pacing harness issues on one controller
MaxWaits == 2

(* Program constants                                                       *)

\* modules.py:37  if port_count > 1000
SafetyThreshold == 1000
\* validators.py:16  1 <= port <= 65535
MinPort == 1
MaxPort == 65535
\* modules.py:71  getattr(args, "ssl_port", 443)
DefaultSslPort == 443

----------------------------------------------------------------------------
(* The log of observable effects, in program order.  ev names the effect,  *)
(* n its number (a port, a sleep in ms, a port count), out what the        *)
(* environment answered (a transport outcome), "" when there is none.      *)

Event(ev, n, out) == [ev |-> ev, n |-> n, out |-> out]

----------------------------------------------------------------------------
(* Text: decimal formatting, split and int(), as Python does them          *)

DigitChars == <<"0", "1", "2", "3", "4", "5", "6", "7", "8", "9">>

RECURSIVE Digits(_)
Digits(n) == IF n < 10 THEN <<DigitChars[n + 1]>>
             ELSE Digits(n \div 10) \o <<DigitChars[(n % 10) + 1]>>

\* str(n) of an int, as the f-string formats it
IntToStr(n) == IF n < 0 THEN <<"-">> \o Digits(-n) ELSE Digits(n)

\* f"{start_port}-{end_port}"
FormatRange(start, end) == IntToStr(start) \o <<"-">> \o IntToStr(end)

\* s.split("-"): the segments between dashes, empty ones included
RECURSIVE SplitDash(_, _)
SplitDash(s, cur) ==
    IF s = <<>> THEN <<cur>>
    ELSE IF Head(s) = "-" THEN <<cur>> \o SplitDash(Tail(s), <<>>)
    ELSE SplitDash(Tail(s), Append(cur, Head(s)))

DigitValue(c) == CHOOSE d \in 0..9 : DigitChars[d + 1] = c

IsDigit(c) == \E d \in 0..9 : DigitChars[d + 1] = c

RECURSIVE DigitsValue(_, _)
DigitsValue(seg, acc) ==
    IF seg = <<>> THEN acc
    ELSE DigitsValue(Tail(seg), acc * 10 + DigitValue(Head(seg)))

\* The text the code reads is taken over Latin-1, the characters an HTTP
\* header line decodes to.  Its whitespace, as str.isspace and the \s of a
\* pattern have it: tab, line feed, U+000B, form feed, carriage return,
\* U+001C to U+001F, space, U+0085 and U+00A0.
Whitespace == {"\t", "\n", "", "\f", "\r", "", "", "", "", " ", "", " "}

IsSpace(c) == c \in Whitespace

\* the whitespace int() takes off both ends of its argument: all of the
\* above but the separators U+001C to U+001F
IntWhitespace == Whitespace \ {"", "", "", ""}

\* s without its leading and trailing whitespace, as int() reads it
RECURSIVE Strip(_)
Strip(s) ==
    IF s = <<>> THEN s
    ELSE IF Head(s) \in IntWhitespace THEN Strip(Tail(s))
    ELSE IF s[Len(s)] \in IntWhitespace THEN Strip(SubSeq(s, 1, Len(s) - 1))
    ELSE s

\* the literal int(seg) reads once whitespace and the sign are taken off
IntBody(seg) ==
    LET t == Strip(seg)
    IN  IF t # <<>> /\ t[1] \in {"+", "-"} THEN Tail(t) ELSE t

\* int(seg): ValueError unless seg is, inside optional whitespace, an
\* optional sign and decimal digits, single underscores allowed between them
IntOk(seg) ==
    LET b == IntBody(seg)
    IN  /\ b # <<>>
        /\ \A i \in 1..Len(b) :
              \/ IsDigit(b[i])
              \/ /\ b[i] = "_"
                 /\ 1 < i /\ i < Len(b)
                 /\ IsDigit(b[i - 1]) /\ IsDigit(b[i + 1])

\* the value of int(seg) where IntOk(seg)
IntValue(seg) ==
    LET t == Strip(seg)
        v == DigitsValue(SelectSeq(IntBody(seg), IsDigit), 0)
    IN  IF t[1] = "-" THEN -v ELSE v

----------------------------------------------------------------------------
(* scanner/utils/validators.py                                             *)

validate_port(port) == MinPort <= port /\ port <= MaxPort

\* parse_port_range(ports_range): the (start, end) pair, or PortRangeError
parse_port_range(ports_range) ==
    LET segs == SplitDash(ports_range, <<>>)
        fmt_ok == Len(segs) = 2 /\ IntOk(segs[1]) /\ IntOk(segs[2])
        start == IntValue(segs[1])
        end == IntValue(segs[2])
    IN  IF ~fmt_ok
        THEN [ok |-> FALSE, start |-> 0, end |-> 0, error |-> "format"]
        ELSE IF ~(validate_port(start) /\ validate_port(end))
        THEN [ok |-> FALSE, start |-> start, end |-> end, error |-> "bounds"]
        ELSE IF start > end
        THEN [ok |-> FALSE, start |-> start, end |-> end, error |-> "order"]
        ELSE [ok |-> TRUE, start |-> start, end |-> end, error |-> ""]

----------------------------------------------------------------------------
(* scanner/utils/rate_limiter.py                                           *)

\* the value None where a RateLimiter is expected
NoLimiter == [present |-> FALSE, delay |-> 0, jitter |-> FALSE]

\* RateLimiter.__init__(delay, jitter)
RateLimiter(delay, jitter) == [present |-> TRUE, delay |-> delay, jitter |-> jitter]

\* the keys of the presets dict of from_preset
PresetNames == {"stealth", "normal", "aggressive", "none"}

\* from_preset whose stealth preset has jitter off
from_preset_jitterless(mode) ==
    IF mode \notin PresetNames
    THEN [ok |-> FALSE, limiter |-> NoLimiter]
    ELSE [ok |-> TRUE,
          limiter |-> CASE mode = "stealth" -> RateLimiter(1000, FALSE)
                        [] mode = "normal" -> RateLimiter(50, FALSE)
                        [] mode = "aggressive" -> RateLimiter(10, FALSE)
                        [] mode = "none" -> NoLimiter]

\* from_preset looking the name up with presets.get(mode): no ValueError
from_preset_lenient(mode) ==
    [ok |-> TRUE,
     limiter |-> CASE mode = "stealth" -> RateLimiter(1000, TRUE)
                   [] mode = "normal" -> RateLimiter(50, FALSE)
                   [] mode = "aggressive" -> RateLimiter(10, FALSE)
                   [] OTHER -> NoLimiter]

\* RateLimiter.from_preset(mode): ok = FALSE stands for the ValueError
from_preset(mode) ==
    IF mode \notin PresetNames
    THEN [ok |-> FALSE, limiter |-> NoLimiter]
    ELSE [ok |-> TRUE,
          limiter |-> CASE mode = "stealth" -> RateLimiter(1000, TRUE)
                        [] mode = "normal" -> RateLimiter(50, FALSE)
                        [] mode = "aggressive" -> RateLimiter(10, FALSE)
                        [] mode = "none" -> NoLimiter]

\* random.uniform(0.5, 2.0), in tenths: the end points and two inner samples
JitterTenths == {5, 10, 13, 20}

\* the debug line of __init__ formats 1/delay if delay > 0 else 'unlimited':
\* FALSE when the division is evaluated on a zero delay (ZeroDivisionError)
init_rate_ok(delay) == IF delay > 0 THEN delay # 0 ELSE TRUE

\* a wait() that returns at once only below zero
wait_negative(limiter, m10) ==
    IF limiter.delay < 0
    THEN <<Event("wait", 0, "")>>
    ELSE IF limiter.jitter
    THEN <<Event("wait", 0, ""),
           Event("sleep", (limiter.delay * m10) \div 10, "")>>
    ELSE <<Event("wait", 0, ""), Event("sleep", limiter.delay, "")>>

\* a wait() whose jitter scales the delay by half the multiplier drawn
wait_halved(limiter, m10) ==
    IF limiter.delay <= 0
    THEN <<Event("wait", 0, "")>>
    ELSE IF limiter.jitter
    THEN <<Event("wait", 0, ""),
           Event("sleep", (limiter.delay * m10) \div 20, "")>>
    ELSE <<Event("wait", 0, ""), Event("sleep", limiter.delay, "")>>

\* RateLimiter.wait(): the events of one call, given the multiplier drawn.
\* "wait" marks the call; "sleep" is the time.sleep(actual_delay) it requests.
wait(limiter, m10) ==
    IF limiter.delay <= 0
    THEN <<Event("wait", 0, "")>>
    ELSE IF limiter.jitter
    THEN <<Event("wait", 0, ""),
           Event("sleep", (limiter.delay * m10) \div 10, "")>>
    ELSE <<Event("wait", 0, ""), Event("sleep", limiter.delay, "")>>

\* the multipliers a wait() of this limiter can draw (one when it draws none)
Multipliers(limiter) ==
    IF limiter.present /\ limiter.delay > 0 /\ limiter.jitter
    THEN JitterTenths ELSE {10}

----------------------------------------------------------------------------
(* scanner/modules.py: create_rate_limiter                                 *)

\* getattr(args, 'preset', 'normal')
PresetOf(a) == IF a.has_preset THEN a.preset ELSE "normal"

\* end_port - start_port + 1
PortCount(a) == a.ports[2] - a.ports[1] + 1

\* create_rate_limiter with the safety test written port_count >= 1000
create_rate_limiter_ge(a) ==
    IF a.has_delay
    THEN [ok |-> TRUE, limiter |-> RateLimiter(a.delay, FALSE), warned |-> FALSE]
    ELSE LET r == from_preset(PresetOf(a))
         IN  IF ~r.ok
             THEN [ok |-> FALSE, limiter |-> NoLimiter, warned |-> FALSE]
             ELSE IF ~r.limiter.present /\ PortCount(a) >= SafetyThreshold
             THEN [ok |-> TRUE, limiter |-> from_preset("aggressive").limiter,
                   warned |-> TRUE]
             ELSE [ok |-> TRUE, limiter |-> r.limiter, warned |-> FALSE]

\* create_rate_limiter testing the delay by truth value (if args.delay:),
\* so that a delay of 0 falls through to the preset
create_rate_limiter_falsy(a) ==
    IF a.has_delay /\ a.delay # 0
    THEN [ok |-> TRUE, limiter |-> RateLimiter(a.delay, FALSE), warned |-> FALSE]
    ELSE LET r == from_preset(PresetOf(a))
         IN  IF ~r.ok
             THEN [ok |-> FALSE, limiter |-> NoLimiter, warned |-> FALSE]
             ELSE IF ~r.limiter.present /\ PortCount(a) > SafetyThreshold
             THEN [ok |-> TRUE, limiter |-> from_preset("aggressive").limiter,
                   warned |-> TRUE]
             ELSE [ok |-> TRUE, limiter |-> r.limiter, warned |-> FALSE]

\* create_rate_limiter(args): ok = FALSE stands for the ValueError of
\* from_preset; warned tells whether the safety warning was logged
create_rate_limiter(a) ==
    IF a.has_delay
    THEN [ok |-> TRUE, limiter |-> RateLimiter(a.delay, FALSE), warned |-> FALSE]
    ELSE LET r == from_preset(PresetOf(a))
         IN  IF ~r.ok
             THEN [ok |-> FALSE, limiter |-> NoLimiter, warned |-> FALSE]
             ELSE IF ~r.limiter.present /\ PortCount(a) > SafetyThreshold
             THEN [ok |-> TRUE, limiter |-> from_preset("aggressive").limiter,
                   warned |-> TRUE]
             ELSE [ok |-> TRUE, limiter |-> r.limiter, warned |-> FALSE]

\* the log entries with the safety warning logged whenever from_preset
\* returned no limiter, whatever the size of the range
LimiterEvents_eager(a) ==
    IF a.has_delay \/ ~from_preset(PresetOf(a)).ok THEN <<>>
    ELSE (IF PresetOf(a) = "none"
          THEN <<Event("warn_disabled", 0, "")>> ELSE <<>>)
         \o (IF ~from_preset(PresetOf(a)).limiter.present
             THEN <<Event("warn_safety", PortCount(a), "")>> ELSE <<>>)

\* the log entries of one create_rate_limiter call: the "DISABLED" warning
\* of from_preset('none'), then the safety warning with the port count
LimiterEvents(a) ==
    IF a.has_delay \/ ~from_preset(PresetOf(a)).ok THEN <<>>
    ELSE (IF PresetOf(a) = "none"
          THEN <<Event("warn_disabled", 0, "")>> ELSE <<>>)
         \o (IF create_rate_limiter(a).warned
             THEN <<Event("warn_safety", PortCount(a), "")>> ELSE <<>>)

----------------------------------------------------------------------------
(* scanner/models/ports.py, scanner/core/scanner.py: the TCP prober        *)

\* PortResult(port, status, service, error)
PortResult(port, status, service, error) ==
    [port |-> port, status |-> status, service |-> service, error |-> error]

\* PortScanResults(): empty container
PortScanResults == [open_ports |-> <<>>, scan_results |-> <<>>]

\* add_result listing the port of every result among the open ports
add_result_every(c, result) ==
    [open_ports |-> Append(c.open_ports, result.port),
     scan_results |-> Append(c.scan_results, result)]

\* PortScanResults.add_result(result)
add_result(c, result) ==
    [open_ports |-> IF result.status = "open"
                    THEN Append(c.open_ports, result.port) ELSE c.open_ports,
     scan_results |-> Append(c.scan_results, result)]

\* what the transport can do on one connect_ex: return 0, return an errno
\* (refused, timed out, network unreachable), or raise socket.error
ConnectOutcomes == {"connected", "ECONNREFUSED", "EAGAIN", "ENETUNREACH", "raise"}

\* the value connect_ex returns for an outcome that returns
ConnectEx(o) == CASE o = "connected" -> 0
                  [] o = "ECONNREFUSED" -> 111
                  [] o = "EAGAIN" -> 11
                  [] o = "ENETUNREACH" -> 101

\* what socket.getservbyport can do: return a name, or raise OSError
ServiceOutcomes == {"found", "OSError"}

\* _scan_single_port looking the service name up whatever connect_ex returned
scan_single_port_named(port, o, sv) ==
    IF o = "raise"
    THEN PortResult(port, "error", "", "socket.error")
    ELSE LET result == ConnectEx(o)
             status == IF result = 0 THEN "open" ELSE "closed"
             service == IF sv = "found" THEN "service" ELSE "unknown"
         IN  PortResult(port, status, service, "")

\* _scan_single_port taking only a refusal for "closed"
scan_single_port_refused(port, o, sv) ==
    IF o = "raise"
    THEN PortResult(port, "error", "", "socket.error")
    ELSE LET status == IF ConnectEx(o) # 111 THEN "open" ELSE "closed"
         IN  PortResult(port, status,
                        IF status = "open"
                        THEN (IF sv = "found" THEN "service" ELSE "unknown")
                        ELSE "", "")

\* PortScanner._scan_single_port(host, port) under a transport outcome
scan_single_port(port, o, sv) ==
    IF o = "raise"
    THEN PortResult(port, "error", "", "socket.error")
    ELSE LET result == ConnectEx(o)
             status == IF result = 0 THEN "open" ELSE "closed"
             service == IF status = "open"
                        THEN (IF sv = "found" THEN "service" ELSE "unknown")
                        ELSE ""
         IN  PortResult(port, status, IF status = "open" THEN service ELSE "", "")

\* the calls _scan_single_port makes on its socket before it blocks in
\* connect_ex: the with statement creates the socket, then the timeout
socket_enter == <<"socket", "settimeout">>

\* the socket calls of a probe whose socket is closed only on the paths
\* where connect_ex returns
socket_steps_leak(o) ==
    <<"connect_ex">> \o (IF o = "raise" THEN <<>> ELSE <<"close">>)

\* the calls _scan_single_port makes on its socket from connect_ex on, in
\* program order: the with block closes the socket when it is left, by the
\* return or by the socket.error that connect_ex raised
socket_steps(o) ==
    <<"connect_ex">> \o <<"close">>

\* the with block left by an exception that is no socket.error, a
\* KeyboardInterrupt inside connect_ex: the socket is closed all the same
socket_exit == <<"close">>

\* the number of sockets open after the calls steps, n being open before
RECURSIVE OpenAfter(_, _)
OpenAfter(n, steps) ==
    IF steps = <<>> THEN n
    ELSE OpenAfter(CASE Head(steps) = "socket" -> n + 1
                     [] Head(steps) = "close" -> n - 1
                     [] OTHER -> n,
                   Tail(steps))

\* the largest number of sockets open at any moment of the calls steps
RECURSIVE PeakOpen(_, _)
PeakOpen(n, steps) ==
    IF steps = <<>> THEN n
    ELSE LET rest == PeakOpen(OpenAfter(n, <<Head(steps)>>), Tail(steps))
         IN  IF rest > n THEN rest ELSE n

\* what socket.gethostbyname can do
ResolveOutcomes == {"resolved", "gaierror"}

\* _check_host_resolution swallowing the gaierror
check_host_resolution_swallow(r) == TRUE

\* PortScanner._check_host_resolution(host): TRUE when it returns,
\* FALSE when it raises HostResolutionError
check_host_resolution(r) == r # "gaierror"

\* a TCP prober pacing only when the delay is positive
TcpPace_positive(limiter, m10) ==
    IF limiter.present /\ limiter.delay > 0 THEN wait(limiter, m10) ELSE <<>>

\* the pacing of the TCP prober before one connection attempt.  The prober
\* run_selected_modules builds is scanner.core.tcp.TCPScanner(timeout,
\* rate_limiter), whose file is not among the sources: it is taken to be
\* PortScanner (scanner/core/scanner.py, which has no rate_limiter) on
\* BaseScanner, calling wait() as the HTTP and TLS probers do and as the
\* specification of the TCP prober states.
TcpPace(limiter, m10) == IF limiter.present THEN wait(limiter, m10) ELSE <<>>

----------------------------------------------------------------------------
(* scanner/core/http.py: the HTTP prober                                   *)

\* Text whose characters the code inspects is a sequence of one-character
\* strings.  UpperChars are the letters of Latin-1 that str.lower() changes,
\* LowerChars those that str.capitalize() changes at the head of a string.
UpperChars == <<"A", "B", "C", "D", "E", "F", "G", "H", "I", "J", "K", "L", "M", "N", "O", "P", "Q", "R", "S", "T", "U", "V", "W", "X", "Y", "Z", "À", "Á", "Â", "Ã", "Ä", "Å", "Æ", "Ç", "È", "É", "Ê", "Ë", "Ì", "Í", "Î", "Ï", "Ð", "Ñ", "Ò", "Ó", "Ô", "Õ", "Ö", "Ø", "Ù", "Ú", "Û", "Ü", "Ý", "Þ">>
LowerChars == <<"a", "b", "c", "d", "e", "f", "g", "h", "i", "j", "k", "l", "m", "n", "o", "p", "q", "r", "s", "t", "u", "v", "w", "x", "y", "z", "à", "á", "â", "ã", "ä", "å", "æ", "ç", "è", "é", "ê", "ë", "ì", "í", "î", "ï", "ð", "ñ", "ò", "ó", "ô", "õ", "ö", "ø", "ù", "ú", "û", "ü", "ý", "þ", "µ", "ß", "ÿ">>

\* the title-case form of each of LowerChars, which capitalize() puts at the
\* head of a string: one character, or two for the sharp s.  "U+0178"
\* stands for the one character of that code point (Y with diaeresis), which
\* a string of this module cannot hold.
TitleForms == <<<<"A">>, <<"B">>, <<"C">>, <<"D">>, <<"E">>, <<"F">>, <<"G">>, <<"H">>, <<"I">>, <<"J">>, <<"K">>, <<"L">>, <<"M">>, <<"N">>, <<"O">>, <<"P">>, <<"Q">>, <<"R">>, <<"S">>, <<"T">>, <<"U">>, <<"V">>, <<"W">>, <<"X">>, <<"Y">>, <<"Z">>, <<"À">>, <<"Á">>, <<"Â">>, <<"Ã">>, <<"Ä">>, <<"Å">>, <<"Æ">>, <<"Ç">>, <<"È">>, <<"É">>, <<"Ê">>, <<"Ë">>, <<"Ì">>, <<"Í">>, <<"Î">>, <<"Ï">>, <<"Ð">>, <<"Ñ">>, <<"Ò">>, <<"Ó">>, <<"Ô">>, <<"Õ">>, <<"Ö">>, <<"Ø">>, <<"Ù">>, <<"Ú">>, <<"Û">>, <<"Ü">>, <<"Ý">>, <<"Þ">>, <<"Μ">>, <<"S", "s">>, <<"U+0178">>>>

\* str.lower() on one character: the letters of UpperChars have their
\* counterpart at the same place in LowerChars
LowerChar(c) ==
    IF \E i \in 1..Len(UpperChars) : UpperChars[i] = c
    THEN LowerChars[CHOOSE i \in 1..Len(UpperChars) : UpperChars[i] = c]
    ELSE c

\* the head str.capitalize() gives a string that starts with c
UpperChar(c) ==
    IF \E i \in 1..Len(LowerChars) : LowerChars[i] = c
    THEN TitleForms[CHOOSE i \in 1..Len(LowerChars) : LowerChars[i] = c]
    ELSE <<c>>

\* s.lower()
lower(s) == [i \in 1..Len(s) |-> LowerChar(s[i])]

\* s.capitalize(): the first character upper-cased, the rest lower-cased
capitalize(s) == IF s = <<>> THEN <<>> ELSE UpperChar(s[1]) \o lower(Tail(s))

\* sub in s
Contains(s, sub) ==
    \E i \in 1..(Len(s) - Len(sub) + 1) : SubSeq(s, i, i + Len(sub) - 1) = sub

\* s.split("/")[0]
BeforeSlash(s) ==
    IF \E i \in 1..Len(s) : s[i] = "/"
    THEN SubSeq(s, 1, (CHOOSE i \in 1..Len(s) :
                          s[i] = "/" /\ \A j \in 1..(i - 1) : s[j] # "/") - 1)
    ELSE s

\* a family test without the lower-casing of the header
identify_web_server_cased(server_header) ==
    IF server_header = <<>> THEN <<"U", "n", "k", "n", "o", "w", "n">>
    ELSE LET header == server_header
         IN  IF Contains(header, <<"a", "p", "a", "c", "h", "e">>) THEN <<"A", "p", "a", "c", "h", "e">>
             ELSE IF Contains(header, <<"n", "g", "i", "n", "x">>) THEN <<"N", "g", "i", "n", "x">>
             ELSE IF Contains(header, <<"i", "i", "s">>)
                     \/ Contains(header, <<"m", "i", "c", "r", "o", "s", "o", "f", "t">>)
                  THEN <<"M", "i", "c", "r", "o", "s", "o", "f", "t", " ", "I", "I", "S">>
             ELSE IF Contains(header, <<"l", "i", "g", "h", "t", "t", "p", "d">>) THEN <<"L", "i", "g", "h", "t", "t", "p", "d">>
             ELSE IF Contains(header, <<"g", "u", "n", "i", "c", "o", "r", "n">>) THEN <<"G", "u", "n", "i", "c", "o", "r", "n">>
             ELSE IF Contains(header, <<"c", "a", "d", "d", "y">>) THEN <<"C", "a", "d", "d", "y">>
             ELSE capitalize(BeforeSlash(server_header))

\* HTTPScanner._identify_web_server(server_header)
identify_web_server(server_header) ==
    IF server_header = <<>> THEN <<"U", "n", "k", "n", "o", "w", "n">>
    ELSE LET header == lower(server_header)
         IN  IF Contains(header, <<"a", "p", "a", "c", "h", "e">>) THEN <<"A", "p", "a", "c", "h", "e">>
             ELSE IF Contains(header, <<"n", "g", "i", "n", "x">>) THEN <<"N", "g", "i", "n", "x">>
             ELSE IF Contains(header, <<"i", "i", "s">>)
                     \/ Contains(header, <<"m", "i", "c", "r", "o", "s", "o", "f", "t">>)
                  THEN <<"M", "i", "c", "r", "o", "s", "o", "f", "t", " ", "I", "I", "S">>
             ELSE IF Contains(header, <<"l", "i", "g", "h", "t", "t", "p", "d">>) THEN <<"L", "i", "g", "h", "t", "t", "p", "d">>
             ELSE IF Contains(header, <<"g", "u", "n", "i", "c", "o", "r", "n">>) THEN <<"G", "u", "n", "i", "c", "o", "r", "n">>
             ELSE IF Contains(header, <<"c", "a", "d", "d", "y">>) THEN <<"C", "a", "d", "d", "y">>
             ELSE capitalize(BeforeSlash(server_header))

\* a response header: absent, or its text
NoHeader == [has |-> FALSE, text |-> <<>>]
Header(text) == [has |-> TRUE, text |-> text]

\* resp.headers.get(name, "Unknown")
header_get(h) == IF h.has THEN h.text ELSE <<"U", "n", "k", "n", "o", "w", "n">>

\* what requests.get can do: return a response (status code, Server and
\* Content-Type headers), raise a requests.RequestException with a message,
\* or raise an exception of another class
Response(code, server, content_type) ==
    [kind |-> "response", code |-> code, server |-> server,
     content_type |-> content_type, msg |-> <<>>]

GetRaises(kind, msg) ==
    [kind |-> kind, code |-> 0, server |-> NoHeader, content_type |-> NoHeader,
     msg |-> msg]

\* no request has been answered yet
NoResponse == GetRaises("none", <<>>)

\* the status codes a response can carry: informational, success, redirect,
\* client error, server error, and a code above the registered classes
HttpCodes == {101, 200, 301, 404, 500, 999}

\* the Server headers a response can carry
ServerHeaders ==
    {NoHeader, Header(<<>>)}
    \cup {Header(t) : t \in {<<"n", "g", "i", "n", "x", "/", "1", ".", "1", "8">>, <<"A", "p", "a", "c", "h", "e", "/", "2", ".", "4">>,
                             <<"M", "i", "c", "r", "o", "s", "o", "f", "t", "-", "I", "I", "S", "/", "1", "0">>, <<"M", "i", "c", "r", "o", "s", "o", "f", "t", "-", "H", "T", "T", "P", "A", "P", "I">>,
                             <<"n", "g", "i", "n", "x", "-", "a", "p", "a", "c", "h", "e">>, <<"L", "I", "G", "H", "T", "T", "P", "D">>,
                             <<"g", "u", "n", "i", "c", "o", "r", "n", "/", "2", "0">>, <<"C", "a", "d", "d", "y">>,
                             <<"C", "u", "s", "t", "o", "m", "T", "h", "i", "n", "g", "/", "2", ".", "0">>, <<"M", "o", "c", "k", "S", "e", "r", "v", "e", "r">>,
                             <<"/", "x">>}}

\* str(e) of a RequestException, as text fragments; " (" is a fragment of
\* its own wherever the message holds it
ErrorMessages ==
    {<<"Connection refused">>, <<>>,
     <<"HTTPConnectionPool: Max retries exceeded with url: /", " (",
       "Caused by NewConnectionError", " (", "Errno 111", ")", ")">>}

\* every behaviour of requests.get the prober is checked on
HttpResponses ==
    {Response(code, Header(<<"n", "g", "i", "n", "x", "/", "1", ".", "1", "8">>), Header(<<"t", "e", "x", "t", "/", "h", "t", "m", "l">>)) : code \in HttpCodes}
    \cup {Response(200, h, NoHeader) : h \in ServerHeaders}
    \cup {GetRaises("RequestException", msg) : msg \in ErrorMessages}
    \cup {GetRaises("Exception", <<"Timeout or connection error">>)}

\* the behaviours of requests.get inside a run of the orchestrator: one of
\* each class
RunResponses ==
    {Response(200, Header(<<"n", "g", "i", "n", "x", "/", "1", ".", "1", "8">>), Header(<<"t", "e", "x", "t", "/", "h", "t", "m", "l">>)),
     Response(404, NoHeader, NoHeader),
     GetRaises("RequestException", <<"Connection refused">>),
     GetRaises("Exception", <<"Timeout or connection error">>)}

\* Response.ok taken for every status below 400
resp_ok_below(code) == code < 400

\* Response.ok: raise_for_status() would not raise, the status is no 4xx/5xx
resp_ok(code) == ~(400 <= code /\ code < 600)

\* f"http://{host}:{port}/"
Url(host, port) == <<"http://", host, ":">> \o IntToStr(port) \o <<"/">>

\* str(e).split(" (")[0]
TruncateError(msg) ==
    IF \E i \in 1..Len(msg) : msg[i] = " ("
    THEN SubSeq(msg, 1, (CHOOSE i \in 1..Len(msg) :
                            msg[i] = " (" /\ \A j \in 1..(i - 1) : msg[j] # " (") - 1)
    ELSE msg

\* the dict appended for a port whose GET returned a response
HttpResponseRecord(host, port, resp) ==
    [port |-> port, status |-> IF resp_ok(resp.code) THEN "open" ELSE "closed",
     status_code |-> resp.code,
     server |-> identify_web_server(header_get(resp.server)),
     content_type |-> header_get(resp.content_type),
     error |-> <<>>, url |-> Url(host, port),
     fields |-> {"port", "status", "status_code", "server", "content_type", "url"}]

\* an error record that also carries a status_code key
HttpErrorRecord_coded(host, port, resp) ==
    [port |-> port, status |-> "closed", status_code |-> 0,
     server |-> <<"N", "/", "A">>, content_type |-> <<>>,
     error |-> TruncateError(resp.msg), url |-> Url(host, port),
     fields |-> {"port", "status", "status_code", "server", "error", "url"}]

\* the dict appended for a port whose GET raised a RequestException
HttpErrorRecord(host, port, resp) ==
    [port |-> port, status |-> "closed", status_code |-> 0,
     server |-> <<"N", "/", "A">>, content_type |-> <<>>,
     error |-> TruncateError(resp.msg), url |-> Url(host, port),
     fields |-> {"port", "status", "server", "error", "url"}]

\* HTTPScanResult(open_ports, scan_results).to_dict() of an empty scan
HTTPScanResult == [open_ports |-> <<>>, scan_results |-> <<>>]

\* an HTTP prober pacing only when the delay is positive
HttpPace_positive(limiter, m10) ==
    IF limiter.present /\ limiter.delay > 0 THEN wait(limiter, m10) ELSE <<>>

\* the pacing of the HTTP prober before one request
HttpPace(limiter, m10) == IF limiter.present THEN wait(limiter, m10) ELSE <<>>

\* list(range(start_port, end_port + 1))
RECURSIVE PortList(_, _)
PortList(start, end) ==
    IF start > end THEN <<>> ELSE <<start>> \o PortList(start + 1, end)

----------------------------------------------------------------------------
(* scanner/core/ssl.py: the TLS prober                                     *)

\* s.split(sep) on a one-character separator: the segments, empty ones
\* included
RECURSIVE SplitOn(_, _, _)
SplitOn(s, sep, cur) ==
    IF s = <<>> THEN <<cur>>
    ELSE IF Head(s) = sep THEN <<cur>> \o SplitOn(Tail(s), sep, <<>>)
    ELSE SplitOn(Tail(s), sep, Append(cur, Head(s)))

NonEmpty(seg) == seg # <<>>

\* the pieces of s between whitespace characters, empty ones included: the
\* \s+ that strptime puts for each space of the format takes any run of them
RECURSIVE SplitSpace(_, _)
SplitSpace(s, cur) ==
    IF s = <<>> THEN <<cur>>
    ELSE IF IsSpace(Head(s)) THEN <<cur>> \o SplitSpace(Tail(s), <<>>)
    ELSE SplitSpace(Tail(s), Append(cur, Head(s)))

\* x.replace("  ", " "): the pairs of spaces, left to right, not overlapping
RECURSIVE ReplaceDoubleSpace(_)
ReplaceDoubleSpace(x) ==
    IF Len(x) < 2 THEN x
    ELSE IF x[1] = " " /\ x[2] = " "
         THEN <<" ">> \o ReplaceDoubleSpace(SubSeq(x, 3, Len(x)))
         ELSE <<x[1]>> \o ReplaceDoubleSpace(Tail(x))

\* %b: the month abbreviations of the C locale, matched ignoring case
MonthNames ==
    <<<<"j", "a", "n">>, <<"f", "e", "b">>, <<"m", "a", "r">>, <<"a", "p", "r">>, <<"m", "a", "y">>, <<"j", "u", "n">>,
      <<"j", "u", "l">>, <<"a", "u", "g">>, <<"s", "e", "p">>, <<"o", "c", "t">>, <<"n", "o", "v">>, <<"d", "e", "c">>>>

\* the number of the month word names, 0 when it names none
MonthNumber(word) ==
    IF \E m \in 1..Len(MonthNames) : MonthNames[m] = lower(word)
    THEN CHOOSE m \in 1..Len(MonthNames) : MonthNames[m] = lower(word)
    ELSE 0

\* %Z: the zone names strptime accepts on a host whose zone is UTC
ZoneNames == {<<"u", "t", "c">>, <<"g", "m", "t">>}

\* a run of lo..hi decimal digits
DigitRun(seg, lo, hi) ==
    Len(seg) >= lo /\ Len(seg) <= hi /\ \A i \in 1..Len(seg) : IsDigit(seg[i])

\* the proleptic Gregorian calendar of datetime
IsLeap(year) == year % 4 = 0 /\ (year % 100 # 0 \/ year % 400 = 0)

DaysInMonth(year, month) ==
    IF month = 2 THEN (IF IsLeap(year) THEN 29 ELSE 28)
    ELSE IF month \in {4, 6, 9, 11} THEN 30 ELSE 31

DaysBeforeYear(year) ==
    (year - 1) * 365 + ((year - 1) \div 4) - ((year - 1) \div 100)
    + ((year - 1) \div 400)

RECURSIVE DaysBeforeMonth(_, _)
DaysBeforeMonth(year, month) ==
    IF month = 1 THEN 0
    ELSE DaysBeforeMonth(year, month - 1) + DaysInMonth(year, month - 1)

\* date.toordinal()
ToOrdinal(dt) == DaysBeforeYear(dt.year) + DaysBeforeMonth(dt.year, dt.month) + dt.day

SecondOfDay(dt) == dt.hour * 3600 + dt.minute * 60 + dt.second

\* an aware datetime in UTC
datetime(year, month, day, hour, minute, second, microsecond) ==
    [year |-> year, month |-> month, day |-> day, hour |-> hour,
     minute |-> minute, second |-> second, microsecond |-> microsecond]

\* None where a datetime is expected
NoDatetime == [has |-> FALSE, dt |-> datetime(1, 1, 1, 0, 0, 0, 0)]

\* datetime.strptime(s, "%b %d %H:%M:%S %Y %Z").replace(tzinfo=utc), or
\* ValueError (has = FALSE): the text must be five words separated by
\* whitespace, a month name, a day of one or two digits, H:M:S, a year of four
\* digits and a zone name, and they must make a date that exists
strptime(s) ==
    LET words == SelectSeq(SplitSpace(s, <<>>), NonEmpty)
        shape == /\ s # <<>> /\ ~IsSpace(s[1]) /\ ~IsSpace(s[Len(s)])
                 /\ Len(words) = 5
        hms == SplitOn(words[3], ":", <<>>)
        fields == /\ shape
                  /\ MonthNumber(words[1]) # 0
                  /\ DigitRun(words[2], 1, 2)
                  /\ Len(hms) = 3
                  /\ \A i \in 1..3 : DigitRun(hms[i], 1, 2)
                  /\ DigitRun(words[4], 4, 4)
                  /\ lower(words[5]) \in ZoneNames
        year == DigitsValue(words[4], 0)
        month == MonthNumber(words[1])
        day == DigitsValue(words[2], 0)
        hour == DigitsValue(hms[1], 0)
        minute == DigitsValue(hms[2], 0)
        second == DigitsValue(hms[3], 0)
        match == /\ fields
                 /\ day >= 1 /\ day <= 31
                 /\ hour <= 23 /\ minute <= 59 /\ second <= 61
        exists == /\ match
                  /\ year >= 1
                  /\ day <= DaysInMonth(year, month)
                  /\ second <= 59
    IN  IF exists
        THEN [has |-> TRUE, dt |-> datetime(year, month, day, hour, minute, second, 0)]
        ELSE NoDatetime

\* a value of the certificate mapping under notBefore / notAfter: absent
\* (None), a string, or an object of another type
NoValue == [kind |-> "None", text |-> <<>>]
Str(text) == [kind |-> "str", text |-> text]
NonStr == [kind |-> "int", text |-> <<>>]

\* a parser giving the first instant of the calendar for a text it cannot read
parse_dt_epoch(s) ==
    IF s.kind # "str" THEN NoDatetime
    ELSE IF strptime(s.text).has THEN strptime(s.text)
    ELSE IF strptime(ReplaceDoubleSpace(s.text)).has
         THEN strptime(ReplaceDoubleSpace(s.text))
    ELSE [has |-> TRUE, dt |-> datetime(1, 1, 1, 0, 0, 0, 0)]

\* SSLScanner._parse_dt(s)
parse_dt(s) ==
    IF s.kind # "str" THEN NoDatetime
    ELSE IF strptime(s.text).has THEN strptime(s.text)
    ELSE IF strptime(ReplaceDoubleSpace(s.text)).has
         THEN strptime(ReplaceDoubleSpace(s.text))
    ELSE NoDatetime

\* the decimal digits of n, zero-padded to width w
Pad(n, w) ==
    LET d == Digits(n)
    IN  [i \in 1..(w - Len(d)) |-> "0"] \o d

\* dt.isoformat() of an aware UTC datetime without microseconds
isoformat(dt) ==
    Pad(dt.year, 4) \o <<"-">> \o Pad(dt.month, 2) \o <<"-">> \o Pad(dt.day, 2)
    \o <<"T">> \o Pad(dt.hour, 2) \o <<":">> \o Pad(dt.minute, 2) \o <<":">>
    \o Pad(dt.second, 2) \o <<"+", "0", "0", ":", "0", "0">>

\* a day count that rounds toward zero
timedelta_days_trunc(na, now) ==
    LET us == na.microsecond - now.microsecond
        secs == (ToOrdinal(na) - ToOrdinal(now)) * 86400
                + SecondOfDay(na) - SecondOfDay(now) + (us \div 1000000)
    IN  IF secs >= 0 THEN secs \div 86400 ELSE -((-secs) \div 86400)

\* (na - now).days: the difference is normalised so that the microseconds
\* and the seconds are non-negative, the days carrying the sign
timedelta_days(na, now) ==
    LET us == na.microsecond - now.microsecond
        secs == SecondOfDay(na) - SecondOfDay(now) + (us \div 1000000)
    IN  (ToOrdinal(na) - ToOrdinal(now)) + (secs \div 86400)

\* out[k] = v on an insertion-ordered dict of (key, value) pairs
DictPut(out, k, v) ==
    IF \E i \in 1..Len(out) : out[i][1] = k
    THEN [i \in 1..Len(out) |-> IF out[i][1] = k THEN <<k, v>> ELSE out[i]]
    ELSE Append(out, <<k, v>>)

RECURSIVE FlattenGroup(_, _)
FlattenGroup(group, out) ==
    IF group = <<>> THEN out
    ELSE FlattenGroup(Tail(group), DictPut(out, Head(group)[1], Head(group)[2]))

RECURSIVE FlattenInto(_, _)
FlattenInto(name, out) ==
    IF name = <<>> THEN out
    ELSE FlattenInto(Tail(name), FlattenGroup(Head(name), out))

\* SSLScanner._flatten(name)
flatten(name) == FlattenInto(name, <<>>)

\* None, or a value, where a string or a number is expected
None == [has |-> FALSE, val |-> <<>>]
Some(val) == [has |-> TRUE, val |-> val]

\* d.get(k)
dict_get(d, k) ==
    IF \E i \in 1..Len(d) : d[i][1] = k
    THEN Some(d[CHOOSE i \in 1..Len(d) : d[i][1] = k][2])
    ELSE None

\* the mapping getpeercert() returns; present is its truth value (FALSE for
\* None and for the empty mapping), subject and issuer are () when absent
Certificate(subject, issuer, notBefore, notAfter) ==
    [present |-> TRUE, subject |-> subject, issuer |-> issuer,
     notBefore |-> notBefore, notAfter |-> notAfter]

NoCertificate ==
    [present |-> FALSE, subject |-> <<>>, issuer |-> <<>>,
     notBefore |-> NoValue, notAfter |-> NoValue]

\* what create_connection and wrap_socket can do: complete the handshake
\* with a peer that sent the certificate peer (none when not present), or
\* raise an exception of class kind with message msg
Handshake(peer) == [kind |-> "handshake", peer |-> peer, msg |-> ""]
ConnectRaises(kind, msg) == [kind |-> kind, peer |-> NoCertificate, msg |-> msg]
NoHandshake == [kind |-> "none", peer |-> NoCertificate, msg |-> ""]

\* the exception classes of the socket and TLS layers, each with its base
ExceptionBase(cls) ==
    CASE cls = "SSLCertVerificationError" -> "SSLError"
      [] cls = "SSLError" -> "OSError"
      [] cls = "TimeoutError" -> "OSError"
      [] cls = "ConnectionRefusedError" -> "OSError"
      [] cls = "gaierror" -> "OSError"
      [] cls = "OSError" -> "Exception"
      [] OTHER -> ""

\* issubclass(cls, handler)
RECURSIVE IsSubclass(_, _)
IsSubclass(cls, handler) ==
    cls # "" /\ (cls = handler \/ IsSubclass(ExceptionBase(cls), handler))

\* ssock.getpeercert(): None without a peer certificate, the empty mapping
\* when the certificate was not validated (verify_mode CERT_NONE), else the
\* decoded certificate
getpeercert(verify, peer) ==
    IF peer.present /\ verify THEN peer ELSE NoCertificate

\* SSLScanResult() with its defaults, as to_dict() gives it
SSLScanResult ==
    [ok |-> FALSE, issued_to |-> None, issued_by |-> None, valid_from |-> None,
     valid_until |-> None, days_left |-> [has |-> FALSE, val |-> 0],
     expired |-> FALSE, error |-> None]

\* the result with expired written days_left <= 0
CertificateResult_today(cert, now) ==
    LET subj == flatten(cert.subject)
        issu == flatten(cert.issuer)
        nb == parse_dt(cert.notBefore)
        na == parse_dt(cert.notAfter)
        days_left == IF na.has
                     THEN [has |-> TRUE, val |-> timedelta_days(na.dt, now)]
                     ELSE [has |-> FALSE, val |-> 0]
    IN  [SSLScanResult EXCEPT
            !.ok = TRUE,
            !.issued_to = dict_get(subj, "commonName"),
            !.issued_by = dict_get(issu, "commonName"),
            !.valid_from = IF nb.has THEN Some(isoformat(nb.dt)) ELSE None,
            !.valid_until = IF na.has THEN Some(isoformat(na.dt)) ELSE None,
            !.days_left = days_left,
            !.expired = (days_left.has /\ days_left.val <= 0)]

\* the result scan() builds from a certificate
CertificateResult(cert, now) ==
    LET subj == flatten(cert.subject)
        issu == flatten(cert.issuer)
        nb == parse_dt(cert.notBefore)
        na == parse_dt(cert.notAfter)
        days_left == IF na.has
                     THEN [has |-> TRUE, val |-> timedelta_days(na.dt, now)]
                     ELSE [has |-> FALSE, val |-> 0]
    IN  [SSLScanResult EXCEPT
            !.ok = TRUE,
            !.issued_to = dict_get(subj, "commonName"),
            !.issued_by = dict_get(issu, "commonName"),
            !.valid_from = IF nb.has THEN Some(isoformat(nb.dt)) ELSE None,
            !.valid_until = IF na.has THEN Some(isoformat(na.dt)) ELSE None,
            !.days_left = days_left,
            !.expired = (days_left.has /\ days_left.val < 0)]

\* a prober without the OSError handler
ssl_scan_no_oserror(verify, h, now) ==
    IF h.kind = "handshake"
    THEN LET cert == getpeercert(verify, h.peer)
         IN  [raised |-> FALSE,
              result |-> IF ~cert.present
                         THEN [SSLScanResult EXCEPT
                                  !.error = Some(<<"No certificate presented">>)]
                         ELSE CertificateResult(cert, now)]
    ELSE IF IsSubclass(h.kind, "SSLError")
    THEN [raised |-> FALSE,
          result |-> [SSLScanResult EXCEPT
                         !.error = Some(<<"SSL error: ", h.msg>>)]]
    ELSE [raised |-> TRUE, result |-> SSLScanResult]

\* a prober whose OSError handler comes first
ssl_scan_oserror_first(verify, h, now) ==
    IF h.kind = "handshake"
    THEN LET cert == getpeercert(verify, h.peer)
         IN  [raised |-> FALSE,
              result |-> IF ~cert.present
                         THEN [SSLScanResult EXCEPT
                                  !.error = Some(<<"No certificate presented">>)]
                         ELSE CertificateResult(cert, now)]
    ELSE IF IsSubclass(h.kind, "OSError")
    THEN [raised |-> FALSE,
          result |-> [SSLScanResult EXCEPT
                         !.error = Some(<<"Socket error: ", h.msg>>)]]
    ELSE IF IsSubclass(h.kind, "SSLError")
    THEN [raised |-> FALSE,
          result |-> [SSLScanResult EXCEPT
                         !.error = Some(<<"SSL error: ", h.msg>>)]]
    ELSE [raised |-> TRUE, result |-> SSLScanResult]

\* SSLScanner(verify=verify).scan(host, port) under the transport behaviour
\* h, with datetime.now(timezone.utc) = now: the result, or raised when the
\* exception meets no handler
ssl_scan(verify, h, now) ==
    IF h.kind = "handshake"
    THEN LET cert == getpeercert(verify, h.peer)
         IN  [raised |-> FALSE,
              result |-> IF ~cert.present
                         THEN [SSLScanResult EXCEPT
                                  !.error = Some(<<"No certificate presented">>)]
                         ELSE CertificateResult(cert, now)]
    ELSE IF IsSubclass(h.kind, "SSLError")
    THEN [raised |-> FALSE,
          result |-> [SSLScanResult EXCEPT
                         !.error = Some(<<"SSL error: ", h.msg>>)]]
    ELSE IF IsSubclass(h.kind, "OSError")
    THEN [raised |-> FALSE,
          result |-> [SSLScanResult EXCEPT
                         !.error = Some(<<"Socket error: ", h.msg>>)]]
    ELSE [raised |-> TRUE, result |-> SSLScanResult]

\* the pacing of the TLS prober before its connection attempt
SslPace(limiter, m10) == IF limiter.present THEN wait(limiter, m10) ELSE <<>>

----------------------------------------------------------------------------
(* Inputs                                                                  *)

\* args.delay: absent/None, or a number of milliseconds
RunDelays == {[has |-> FALSE, ms |-> 0], [has |-> TRUE, ms |-> 0],
              [has |-> TRUE, ms |-> 300]}

\* args.preset: absent, a preset name, or a name that is no preset
RunPresets == {[has |-> FALSE, name |-> ""], [has |-> TRUE, name |-> "none"],
               [has |-> TRUE, name |-> "turbo"]}

\* args.ports: ranges of at most MaxSpan ports at the low and at the high
\* end of the port space, and pairs no validator has filtered
RunPorts == {<<b, b + n - 1>> : b \in {80, MaxPort}, n \in 1..MaxSpan}
            \cup {<<0, 1>>, <<2, 1>>, <<-1, -1>>}

\* args.modules: absent, empty, or a list of module names in any order
RunModules == {[has |-> FALSE, list |-> <<>>], [has |-> TRUE, list |-> <<>>]}
              \cup {[has |-> TRUE, list |-> l] : l \in
                     {<<"tcp">>, <<"http">>, <<"ssl">>, <<"dns">>,
                      <<"ssl", "tcp">>, <<"http", "tcp">>, <<"ssl", "http">>,
                      <<"dns", "ssl">>, <<"ssl", "http", "tcp">>}}

\* args.ssl_port: absent, or a port
RunSslPorts == {[has |-> FALSE, port |-> 0], [has |-> TRUE, port |-> 8443]}

\* args.host
RunHost == "example.com"

\* a certificate name: the relative distinguished names, each a tuple of
\* (key, value) pairs
CommonName(v) == <<<<<<"commonName", v>>>>>>

\* a certificate in date at RunNow
GoodCertificate ==
    Certificate(CommonName("example.com"), CommonName("Test CA"),
                Str(<<"J", "a", "n", " ", " ", "1", " ", "0", "0", ":", "0", "0", ":", "0", "0", " ", "2", "0", "2", "4", " ", "G", "M", "T">>),
                Str(<<"D", "e", "c", " ", "3", "1", " ", "2", "3", ":", "5", "9", ":", "5", "9", " ", "2", "0", "2", "5", " ", "G", "M", "T">>))

\* the transport behaviours inside a run of the orchestrator: one of each
\* class
RunHandshakes ==
    {Handshake(GoodCertificate), Handshake(NoCertificate),
     ConnectRaises("SSLError", "handshake failure"),
     ConnectRaises("TimeoutError", "timed out")}

\* datetime.now(timezone.utc) inside a run of the orchestrator
RunNow == datetime(2025, 12, 1, 12, 0, 0, 0)

Namespace(d, p, ports, m, sp, nv) ==
    [host |-> RunHost,
     has_delay |-> d.has, delay |-> d.ms, has_preset |-> p.has, preset |-> p.name,
     ports |-> ports, has_modules |-> m.has, modules |-> m.list,
     has_ssl_port |-> sp.has, ssl_port |-> sp.port, no_verify |-> nv]

\* the Namespaces the orchestrator is run on.  An attribute the run never
\* reads is not varied: the preset name under an explicit delay (beyond
\* absent and invalid), the TLS port and the verification switch unless
\* "ssl" is the selection.
RunArgs ==
    {a \in {Namespace(d, p, ports, m, sp, nv) :
               d \in RunDelays, p \in RunPresets, ports \in RunPorts,
               m \in RunModules, sp \in RunSslPorts, nv \in BOOLEAN} :
        /\ a.has_delay => a.preset # "none"
        /\ a.has_ssl_port => a.modules = <<"ssl">>
        /\ a.no_verify => a.modules = <<"ssl">> /\ ~a.has_ssl_port}

\* the Namespaces create_rate_limiter is exercised on: every preset, and
\* ranges on both sides of the safety threshold
LimiterDelays == RunDelays \cup {[has |-> TRUE, ms |-> 100],
                                 [has |-> TRUE, ms |-> -100]}
LimiterPresets == RunPresets \cup {[has |-> TRUE, name |-> "normal"],
                                   [has |-> TRUE, name |-> "aggressive"],
                                   [has |-> TRUE, name |-> "stealth"]}
LimiterPorts == {<<1, 100>>, <<1, SafetyThreshold - 1>>, <<1, SafetyThreshold>>,
                 <<1, SafetyThreshold + 1>>, <<1, 1500>>,
                 <<MaxPort - SafetyThreshold + 1, MaxPort>>,
                 <<MaxPort - SafetyThreshold, MaxPort>>, <<MinPort, MaxPort>>,
                 <<2, 1>>}

LimiterArgs ==
    {Namespace(d, p, ports, [has |-> FALSE, list |-> <<>>],
               [has |-> FALSE, port |-> 0], FALSE) :
        d \in LimiterDelays, p \in LimiterPresets, ports \in LimiterPorts}

----------------------------------------------------------------------------
(* scanner/modules.py: run_selected_modules                                *)

Range(seq) == {seq[i] : i \in 1..Len(seq)}

\* d[key] = value on an insertion-ordered dict: the keys afterwards
DictSet(keys, key) == IF key \in Range(keys) THEN keys ELSE Append(keys, key)

\* the default taken only when the attribute is missing
DefaultSelection_attr(a) == ~a.has_modules

\* not hasattr(args, "modules") or not args.modules
DefaultSelection(a) == ~a.has_modules \/ a.modules = <<>>

\* "name" in args.modules
Selected(a, name) == a.has_modules /\ name \in Range(a.modules)

\* the module tests chained with elif: only the first selected module runs
StageAfter_elif(a, s) ==
    IF s # "start" THEN "done"
    ELSE IF DefaultSelection(a) \/ Selected(a, "tcp") THEN "tcp"
    ELSE IF Selected(a, "http") THEN "http"
    ELSE IF Selected(a, "ssl") THEN "ssl"
    ELSE "done"

\* the next module run_selected_modules enters after stage s, or "done"
StageAfter(a, s) ==
    IF DefaultSelection(a)
    THEN (IF s = "start" THEN "tcp" ELSE "done")
    ELSE IF s = "start" /\ Selected(a, "tcp") THEN "tcp"
    ELSE IF s \in {"start", "tcp"} /\ Selected(a, "http") THEN "http"
    ELSE IF s \in {"start", "tcp", "http"} /\ Selected(a, "ssl") THEN "ssl"
    ELSE "done"

\* the TLS port taken from the low end of the port range
SslPortOf_low(a) == a.ports[1]

\* getattr(args, "ssl_port", 443)
SslPortOf(a) == IF a.has_ssl_port THEN a.ssl_port ELSE DefaultSslPort

\* the TCP prober outside scan(); sockets counts the probe sockets open,
\* peak the most that were open at one moment of the scan.  The stage is
\* "built" once the prober is constructed and scan() is to resolve the host,
\* "loop" at the head of an iteration, "paced" once the iteration's rate
\* limiting is done, "connecting" once the probe's socket is open and
\* connect_ex is still to return.
TcpIdle == [stage |-> "idle", port |-> 0, end |-> 0,
            open_ports |-> <<>>, scan_results |-> <<>>,
            sockets |-> 0, peak |-> 0]

\* the HTTP prober outside scan(): ports is the argument of the last call,
\* resp the answer to its last request.  Inside scan() the stage is "loop"
\* at the head of an iteration and "paced" once the iteration's rate
\* limiting is done and its request is still to be made.
HttpIdle == [stage |-> "idle", ports |-> <<>>, todo |-> <<>>, resp |-> NoResponse,
             open_ports |-> <<>>, scan_results |-> <<>>]

\* scan(host, ports) entered: open_ports = [], results = [], the loop at its
\* first port
HttpEntered(ports) ==
    [stage |-> "loop", ports |-> ports, todo |-> ports, resp |-> NoResponse,
     open_ports |-> <<>>, scan_results |-> <<>>]

\* the TLS prober before scan() is called; the stage is "paced" once the
\* rate limiting of scan() is done and the connection is still to be made,
\* "returned" once scan() has returned
TlsIdle == [stage |-> "idle", handshake |-> NoHandshake,
            now |-> datetime(1, 1, 1, 0, 0, 0, 0)]

EmptyReport == [tcp |-> PortScanResults, http |-> HTTPScanResult,
                ssl |-> SSLScanResult]

Init ==
    /\ args \in RunArgs
    /\ pc = "start"
    /\ exc = ""
    /\ rate_limiter = NoLimiter
    /\ log = <<>>
    /\ results = <<>>
    /\ report = EmptyReport
    /\ tcp = TcpIdle
    /\ tls = TlsIdle
    /\ http = HttpIdle

\* an exception leaves run_selected_modules: no report is returned
Raise(name, events) ==
    /\ pc' = "raised"
    /\ exc' = name
    /\ log' = log \o events
    /\ UNCHANGED <<args, rate_limiter, results, report, tcp, http, tls>>

\* lines 48-54: results = {}, the range string, create_rate_limiter(args)
Configure ==
    /\ pc = "start"
    /\ LET r == create_rate_limiter(args)
       IN  IF ~r.ok
           THEN Raise("ValueError", <<>>)
           ELSE /\ rate_limiter' = r.limiter
                /\ log' = log \o LimiterEvents(args)
                /\ pc' = StageAfter(args, "start")
                /\ UNCHANGED <<args, exc, results, report, tcp, http, tls>>

\* TCPScanner(...): the prober is built, scan() is entered
TcpBuild ==
    /\ pc = "tcp"
    /\ tcp.stage = "idle"
    /\ tcp' = [tcp EXCEPT !.stage = "built"]
    /\ log' = log \o <<Event("new_tcp", 0, "")>>
    /\ UNCHANGED <<args, pc, exc, rate_limiter, results, report, http, tls>>

\* the head of scan(): gethostbyname returns or raises, then the range
TcpBegin ==
    /\ pc = "tcp"
    /\ tcp.stage = "built"
    /\ \E r \in ResolveOutcomes :
         LET pr == parse_port_range(FormatRange(args.ports[1], args.ports[2]))
             ev == <<Event("resolve", 0, r)>>
         IN  IF ~check_host_resolution(r)
             THEN Raise("HostResolutionError", ev)
             ELSE IF ~pr.ok
             THEN Raise("PortRangeError", ev)
             ELSE /\ tcp' = [stage |-> "loop", port |-> pr.start, end |-> pr.end,
                             open_ports |-> <<>>, scan_results |-> <<>>,
                             sockets |-> 0, peak |-> 0]
                  /\ log' = log \o ev
                  /\ UNCHANGED <<args, pc, exc, rate_limiter, results, report, http, tls>>

\* the head of an iteration of the scan loop: the rate limiting, which
\* returns after its sleep and before the probe
TcpWait ==
    /\ pc = "tcp"
    /\ tcp.stage = "loop"
    /\ tcp.port <= tcp.end
    /\ \E m10 \in Multipliers(rate_limiter) :
         log' = log \o TcpPace(rate_limiter, m10)
    /\ tcp' = [tcp EXCEPT !.stage = "paced"]
    /\ UNCHANGED <<args, pc, exc, rate_limiter, results, report, http, tls>>

\* _scan_single_port entered: the socket is created and given its timeout
TcpOpen ==
    /\ pc = "tcp"
    /\ tcp.stage = "paced"
    /\ LET used == PeakOpen(tcp.sockets, socket_enter)
       IN  tcp' = [tcp EXCEPT !.stage = "connecting",
                              !.sockets = OpenAfter(tcp.sockets, socket_enter),
                              !.peak = IF used > tcp.peak THEN used
                                       ELSE tcp.peak]
    /\ UNCHANGED <<args, pc, exc, rate_limiter, log, results, report, http, tls>>

\* the rest of the iteration: connect_ex returns or raises, the with block
\* is left, the result is added
TcpProbe ==
    /\ pc = "tcp"
    /\ tcp.stage = "connecting"
    /\ \E o \in ConnectOutcomes, sv \in ServiceOutcomes :
         LET c == add_result([open_ports |-> tcp.open_ports,
                              scan_results |-> tcp.scan_results],
                             scan_single_port(tcp.port, o, sv))
             used == PeakOpen(tcp.sockets, socket_steps(o))
         IN  /\ tcp' = [tcp EXCEPT !.stage = "loop",
                                   !.port = tcp.port + 1,
                                   !.open_ports = c.open_ports,
                                   !.scan_results = c.scan_results,
                                   !.sockets = OpenAfter(tcp.sockets, socket_steps(o)),
                                   !.peak = IF used > tcp.peak THEN used
                                            ELSE tcp.peak]
             /\ log' = log \o <<Event("connect", tcp.port, o)>>
    /\ UNCHANGED <<args, pc, exc, rate_limiter, results, report, http, tls>>

\* the loop is over: results.to_dict() is stored under "tcp"
TcpEnd ==
    /\ pc = "tcp"
    /\ tcp.stage = "loop"
    /\ tcp.port > tcp.end
    /\ results' = DictSet(results, "tcp")
    /\ report' = [report EXCEPT !.tcp = [open_ports |-> tcp.open_ports,
                                         scan_results |-> tcp.scan_results]]
    /\ tcp' = TcpIdle
    /\ pc' = StageAfter(args, "tcp")
    /\ UNCHANGED <<args, exc, rate_limiter, log, http, tls>>

\* HTTPScanner(...) and scan(host, list(range(start_port, end_port + 1)))
HttpBegin ==
    /\ pc = "http"
    /\ http.stage = "idle"
    /\ http' = HttpEntered(PortList(args.ports[1], args.ports[2]))
    /\ log' = Append(log, Event("new_http", 0, ""))
    /\ UNCHANGED <<args, pc, exc, rate_limiter, results, report, tcp, tls>>

\* the head of an iteration of the HTTP loop: the rate limiting, which
\* returns after its sleep and before the request is made
HttpWait ==
    /\ pc = "http"
    /\ http.stage = "loop"
    /\ http.todo # <<>>
    /\ \E m10 \in Multipliers(rate_limiter) :
         log' = log \o HttpPace(rate_limiter, m10)
    /\ http' = [http EXCEPT !.stage = "paced"]
    /\ UNCHANGED <<args, pc, exc, rate_limiter, results, report, tcp, tls>>

\* the rest of the iteration under the behaviour resp of requests.get: GET,
\* record; an exception that is no RequestException leaves scan()
HttpIteration(resp) ==
    LET port == Head(http.todo)
        done == <<Event("http_get", port, resp.kind)>>
    IN  IF resp.kind = "Exception"
        THEN Raise("Exception", done)
        ELSE /\ http' = [http EXCEPT
                   !.stage = "loop",
                   !.todo = Tail(http.todo),
                   !.resp = resp,
                   !.open_ports = IF resp.kind = "response" /\ resp_ok(resp.code)
                                  THEN Append(http.open_ports, port)
                                  ELSE http.open_ports,
                   !.scan_results =
                       Append(http.scan_results,
                              IF resp.kind = "response"
                              THEN HttpResponseRecord(args.host, port, resp)
                              ELSE HttpErrorRecord(args.host, port, resp))]
             /\ log' = log \o done
             /\ UNCHANGED <<args, pc, exc, rate_limiter, results, report, tcp, tls>>

\* the request of an iteration in a run of the orchestrator
HttpProbe ==
    /\ pc = "http"
    /\ http.stage = "paced"
    /\ \E resp \in RunResponses : HttpIteration(resp)

\* the loop is over: HTTPScanResult(...).to_dict() is stored under "http"
HttpEnd ==
    /\ pc = "http"
    /\ http.stage = "loop"
    /\ http.todo = <<>>
    /\ results' = DictSet(results, "http")
    /\ report' = [report EXCEPT !.http = [open_ports |-> http.open_ports,
                                          scan_results |-> http.scan_results]]
    /\ http' = [HttpIdle EXCEPT !.ports = http.ports]
    /\ pc' = StageAfter(args, "http")
    /\ UNCHANGED <<args, exc, rate_limiter, log, tcp, tls>>

\* SSLScanner(verify=not args.no_verify) and the head of scan(host, port):
\* the rate limiting, which returns after its sleep and before the
\* connection is attempted
SslWait ==
    /\ pc = "ssl"
    /\ tls.stage = "idle"
    /\ \E m10 \in Multipliers(rate_limiter) :
         log' = log \o <<Event("new_ssl", 0, "")>> \o SslPace(rate_limiter, m10)
    /\ tls' = [tls EXCEPT !.stage = "paced"]
    /\ UNCHANGED <<args, pc, exc, rate_limiter, results, report, tcp, http>>

\* the rest of scan(host, port) under the transport behaviour h and the
\* clock now: the connection attempt and the result.  stored says whether
\* the orchestrator stores the result under "ssl".
SslAttempt(h, now, stored) ==
    LET r == ssl_scan(~args.no_verify, h, now)
        done == <<Event("tls_connect", SslPortOf(args), h.kind)>>
    IN  IF r.raised
        THEN Raise(h.kind, done)
        ELSE /\ log' = log \o done
             /\ report' = [report EXCEPT !.ssl = r.result]
             /\ tls' = [stage |-> "returned", handshake |-> h, now |-> now]
             /\ results' = IF stored THEN DictSet(results, "ssl") ELSE results
             /\ pc' = IF stored THEN StageAfter(args, "ssl") ELSE "done"
             /\ UNCHANGED <<args, exc, rate_limiter, tcp, http>>

\* results["ssl"] = SSLScanner(...).scan(args.host, ssl_port)
SslScan ==
    /\ pc = "ssl"
    /\ tls.stage = "paced"
    /\ \E h \in RunHandshakes : SslAttempt(h, RunNow, TRUE)

\* a KeyboardInterrupt delivered while a prober's scan() runs: while
\* gethostbyname blocks, between two iterations of a loop, while wait()
\* sleeps before the probe, the request or the connection, or while
\* connect_ex blocks, where the with block closes the probe's socket on the
\* way out.  Neither scan() nor run_selected_modules has a handler for it:
\* it propagates, and the lists a loop has filled so far are returned to
\* nobody.
Interrupt ==
    /\ \/ pc = "tcp" /\ tcp.stage \in {"built", "loop", "paced", "connecting"}
       \/ pc = "http" /\ http.stage \in {"loop", "paced"}
       \/ pc = "ssl" /\ tls.stage = "paced"
    /\ pc' = "raised"
    /\ exc' = "KeyboardInterrupt"
    /\ log' = log \o <<Event("interrupt", 0, "")>>
    /\ tcp' = IF pc = "tcp" /\ tcp.stage = "connecting"
              THEN [tcp EXCEPT !.sockets = OpenAfter(tcp.sockets, socket_exit)]
              ELSE tcp
    /\ UNCHANGED <<args, rate_limiter, results, report, http, tls>>

Next ==
    \/ Configure
    \/ TcpBuild
    \/ TcpBegin
    \/ TcpWait
    \/ TcpOpen
    \/ TcpProbe
    \/ TcpEnd
    \/ HttpBegin
    \/ HttpWait
    \/ HttpProbe
    \/ HttpEnd
    \/ SslWait
    \/ SslScan
    \/ Interrupt

Spec == Init /\ [][Next]_vars

----------------------------------------------------------------------------
(* The pacing controller on its own: create_rate_limiter(args) on every    *)
(* preset and on ranges around the safety threshold, then wait() calls.    *)

\* the delays RateLimiter(delay, jitter) is built with directly, in ms
DirectDelays == {-100, 0, 100}

DirectArgs ==
    {Namespace([has |-> FALSE, ms |-> 0], [has |-> FALSE, name |-> ""],
               <<1, 100>>, [has |-> FALSE, list |-> <<>>],
               [has |-> FALSE, port |-> 0], FALSE)}

InitLimiter ==
    /\ \/ args \in LimiterArgs /\ pc = "limiter"
       \/ args \in DirectArgs /\ pc = "direct"
    /\ exc = ""
    /\ rate_limiter = NoLimiter
    /\ log = <<>>
    /\ results = <<>>
    /\ report = EmptyReport
    /\ tcp = TcpIdle
    /\ tls = TlsIdle
    /\ http = HttpIdle

\* limiter = create_rate_limiter(args)
LimiterCreate ==
    /\ pc = "limiter"
    /\ LET r == create_rate_limiter(args)
       IN  IF ~r.ok
           THEN Raise("ValueError", <<>>)
           ELSE /\ rate_limiter' = r.limiter
                /\ log' = log \o LimiterEvents(args)
                /\ pc' = "built"
                /\ UNCHANGED <<args, exc, results, report, tcp, http, tls>>

\* limiter = RateLimiter(delay=delay, jitter=jitter)
LimiterConstruct ==
    /\ pc = "direct"
    /\ \E delay \in DirectDelays, jitter \in BOOLEAN :
         IF ~init_rate_ok(delay)
         THEN Raise("ZeroDivisionError", <<>>)
         ELSE /\ rate_limiter' = RateLimiter(delay, jitter)
              /\ pc' = "constructed"
              /\ UNCHANGED <<args, exc, log, results, report, tcp, http, tls>>

WaitCalls(l) == Cardinality({i \in 1..Len(l) : l[i].ev = "wait"})

\* limiter.wait()
LimiterWait ==
    /\ pc \in {"built", "constructed"}
    /\ rate_limiter.present
    /\ WaitCalls(log) < MaxWaits
    /\ \E m10 \in Multipliers(rate_limiter) :
         log' = log \o wait(rate_limiter, m10)
    /\ UNCHANGED <<args, pc, exc, rate_limiter, results, report, tcp, http, tls>>

NextLimiter ==
    \/ LimiterCreate
    \/ LimiterConstruct
    \/ LimiterWait

SpecLimiter == InitLimiter /\ [][NextLimiter]_vars

----------------------------------------------------------------------------
(* The HTTP prober on its own: HTTPScanner(timeout, rate_limiter).scan(host, *)
(* ports) on port lists a caller supplies, in any order and with repeats,  *)
(* under every behaviour of requests.get.                                  *)

\* the longest port list handed to scan()
MaxPorts == 2

HttpPortChoices == {8080, 80}

HttpPortLists == UNION {[1..n -> HttpPortChoices] : n \in 0..MaxPorts}

HttpLimiters == {NoLimiter, RateLimiter(50, FALSE)}

HttpArgs ==
    {[Namespace([has |-> FALSE, ms |-> 0], [has |-> FALSE, name |-> "normal"],
                <<80, 80>>, [has |-> TRUE, list |-> <<"http">>],
                [has |-> FALSE, port |-> 0], FALSE)
        EXCEPT !.host = "testserver.com"]}

\* scan(host, ports) has been entered: open_ports = [], results = []
InitHttp ==
    /\ args \in HttpArgs
    /\ pc = "http"
    /\ exc = ""
    /\ rate_limiter \in HttpLimiters
    /\ log = <<>>
    /\ results = <<>>
    /\ report = EmptyReport
    /\ tcp = TcpIdle
    /\ tls = TlsIdle
    /\ \E ports \in HttpPortLists : http = HttpEntered(ports)

\* the request of an iteration, under every behaviour of requests.get
HttpScanProbe ==
    /\ pc = "http"
    /\ http.stage = "paced"
    /\ \E resp \in HttpResponses : HttpIteration(resp)

\* return HTTPScanResult(open_ports, results).to_dict()
HttpReturn ==
    /\ pc = "http"
    /\ http.stage = "loop"
    /\ http.todo = <<>>
    /\ report' = [report EXCEPT !.http = [open_ports |-> http.open_ports,
                                          scan_results |-> http.scan_results]]
    /\ http' = [HttpIdle EXCEPT !.ports = http.ports]
    /\ pc' = "done"
    /\ UNCHANGED <<args, exc, rate_limiter, log, results, tcp, tls>>

NextHttp ==
    \/ HttpWait
    \/ HttpScanProbe
    \/ HttpReturn

SpecHttp == InitHttp /\ [][NextHttp]_vars

----------------------------------------------------------------------------
(* The TLS prober on its own: SSLScanner(timeout, verify,                  *)
(* rate_limiter).scan(host, port) under every transport behaviour, on      *)
(* certificates with every kind of name and date, at clock readings on     *)
(* both sides of the expiry.                                               *)

TlsSubjects ==
    {<<>>, CommonName("example.com"),
     <<<<<<"organizationName", "Example Org">>>>,
       <<<<"commonName", "a.example">>>>, <<<<"commonName", "b.example">>>>>>}

TlsIssuers == {<<>>, CommonName("Test CA")}

\* notBefore: in the certificate format, absent, or in another format
TlsNotBefores ==
    {Str(<<"J", "a", "n", " ", " ", "1", " ", "0", "0", ":", "0", "0", ":", "0", "0", " ", "2", "0", "2", "4", " ", "G", "M", "T">>), NoValue, Str(<<"2", "0", "2", "4", "-", "0", "1", "-", "0", "1", "T", "0", "0", ":", "0", "0", ":", "0", "0", "Z">>)}

\* notAfter: in the certificate format (with one or two spaces before the
\* day, in either letter case, on a leap day), absent, not a string, empty,
\* in another format, without a zone, or naming a date that does not exist
TlsNotAfters ==
    {Str(<<"D", "e", "c", " ", "3", "1", " ", "2", "3", ":", "5", "9", ":", "5", "9", " ", "2", "0", "2", "5", " ", "G", "M", "T">>), Str(<<"J", "a", "n", " ", " ", "1", " ", "0", "0", ":", "0", "0", ":", "0", "0", " ", "2", "0", "2", "6", " ", "G", "M", "T">>),
     Str(<<"d", "e", "c", " ", "3", "1", " ", "2", "3", ":", "5", "9", ":", "5", "9", " ", "2", "0", "2", "5", " ", "u", "t", "c">>), Str(<<"F", "e", "b", " ", "2", "9", " ", "1", "2", ":", "0", "0", ":", "0", "0", " ", "2", "0", "2", "4", " ", "G", "M", "T">>),
     NoValue, NonStr, Str(<<>>),
     Str(<<"2", "0", "2", "5", "-", "1", "2", "-", "3", "1", "T", "2", "3", ":", "5", "9", ":", "5", "9", "Z">>), Str(<<"D", "e", "c", " ", "3", "1", " ", "2", "3", ":", "5", "9", ":", "5", "9", " ", "2", "0", "2", "5">>),
     Str(<<"F", "e", "b", " ", "3", "0", " ", "1", "2", ":", "0", "0", ":", "0", "0", " ", "2", "0", "2", "5", " ", "G", "M", "T">>), Str(<<"D", "e", "c", " ", "3", "1", " ", "2", "3", ":", "5", "9", ":", "6", "0", " ", "2", "0", "2", "5", " ", "G", "M", "T">>),
     Str(<<"D", "e", "c", " ", "3", "1", " ", "2", "4", ":", "0", "0", ":", "0", "0", " ", "2", "0", "2", "5", " ", "G", "M", "T">>), Str(<<"D", "e", "c", " ", " ", "3", "1", " ", " ", "2", "3", ":", "5", "9", ":", "5", "9", " ", " ", "2", "0", "2", "5", " ", " ", "G", "M", "T">>)}

TlsCertificates ==
    {Certificate(subject, issuer, notBefore, notAfter) :
        subject \in TlsSubjects, issuer \in TlsIssuers,
        notBefore \in TlsNotBefores, notAfter \in TlsNotAfters}

\* every transport behaviour the prober is checked on
TlsHandshakes ==
    {Handshake(cert) : cert \in TlsCertificates}
    \cup {Handshake(NoCertificate)}
    \cup {ConnectRaises("SSLError", "handshake failure"),
          ConnectRaises("SSLCertVerificationError", "certificate verify failed"),
          ConnectRaises("OSError", "Connection refused"),
          ConnectRaises("ConnectionRefusedError", "Connection refused"),
          ConnectRaises("TimeoutError", "timed out"),
          ConnectRaises("gaierror", "Name or service not known")}

\* datetime.now(timezone.utc): within a second, and within a day, of the
\* expiry instants above, and a leap day away from one
TlsNows ==
    {datetime(2025, 12, 30, 23, 59, 59, 0), datetime(2025, 12, 30, 23, 59, 59, 500000),
     datetime(2025, 12, 31, 0, 0, 0, 0),
     datetime(2025, 12, 31, 23, 59, 59, 0), datetime(2025, 12, 31, 23, 59, 59, 500000),
     datetime(2026, 1, 1, 0, 0, 0, 0), datetime(2026, 1, 1, 23, 59, 59, 0),
     datetime(2026, 1, 1, 23, 59, 59, 500000),
     datetime(2024, 2, 28, 12, 0, 0, 1), datetime(2024, 3, 1, 11, 59, 59, 999999)}

TlsLimiters == {NoLimiter, RateLimiter(50, FALSE)}

TlsArgs ==
    {Namespace([has |-> FALSE, ms |-> 0], [has |-> FALSE, name |-> "normal"],
               <<80, 80>>, [has |-> TRUE, list |-> <<"ssl">>],
               [has |-> FALSE, port |-> 0], nv) : nv \in BOOLEAN}

\* SSLScanner(timeout, verify, rate_limiter) has been built
InitTls ==
    /\ args \in TlsArgs
    /\ pc = "ssl"
    /\ exc = ""
    /\ rate_limiter \in TlsLimiters
    /\ log = <<>>
    /\ results = <<>>
    /\ report = EmptyReport
    /\ tcp = TcpIdle
    /\ tls = TlsIdle
    /\ http = HttpIdle

\* scan(host, port)
TlsScan ==
    /\ pc = "ssl"
    /\ tls.stage = "paced"
    /\ \E h \in TlsHandshakes, now \in TlsNows : SslAttempt(h, now, FALSE)

NextTls ==
    \/ SslWait
    \/ TlsScan

SpecTls == InitTls /\ [][NextTls]_vars

----------------------------------------------------------------------------
(* Properties                                                              *)

\* the positions of the log holding an event named ev, up to position i
Upto(l, ev, i) == {j \in 1..i : l[j].ev = ev}

CountUpto(l, ev, i) == Cardinality(Upto(l, ev, i))

\* the TCP result container: the stored report once the scan has returned,
\* the scan's own PortScanResults while it runs
TcpView ==
    IF "tcp" \in Range(results) THEN report.tcp
    ELSE [open_ports |-> tcp.open_ports, scan_results |-> tcp.scan_results]

\* the part of the log written up to the end of the TCP module
TcpLog ==
    LET later == {i \in 1..Len(log) : log[i].ev \in {"new_http", "new_ssl"}}
    IN  IF later = {} THEN log
        ELSE SubSeq(log, 1, (CHOOSE i \in later : \A j \in later : i <= j) - 1)

\* C1: with no explicit delay and preset 'none', create_rate_limiter returns
\* no limiter for a range of at most 1000 ports and the aggressive limiter
\* (delay 10 ms, jitter off) for a range of 1001 ports or more.
C1_NonePresetBoundary ==
    (pc = "built" /\ ~args.has_delay /\ args.has_preset /\ args.preset = "none")
    => /\ (args.ports[2] - args.ports[1] + 1 <= 1000 => ~rate_limiter.present)
       /\ (args.ports[2] - args.ports[1] + 1 >= 1001
             => rate_limiter = [present |-> TRUE, delay |-> 10, jitter |-> FALSE])

C1_Witness ==
    /\ pc = "built" /\ ~args.has_delay /\ args.preset = "none"
    /\ args.ports = <<1, 1001>>
    /\ rate_limiter.present /\ rate_limiter.delay = 10

\* C2: with an explicit delay d, create_rate_limiter returns a limiter of
\* delay d with jitter off, whatever the preset (a name that is no preset
\* included) and the size of the range; no safety substitution or warning
\* takes place, and with d = 0 no wait() of the limiter ever sleeps.
C2_ExplicitDelayWins ==
    args.has_delay
    => /\ pc # "raised"
       /\ (pc = "built"
             => /\ rate_limiter = [present |-> TRUE, delay |-> args.delay,
                                   jitter |-> FALSE]
                /\ \A i \in 1..Len(log) :
                     /\ log[i].ev \notin {"warn_safety", "warn_disabled"}
                     /\ (log[i].ev = "sleep" => args.delay > 0 /\ log[i].n = args.delay))

C2_Witness ==
    /\ pc = "built" /\ args.has_delay /\ args.delay = 0
    /\ args.ports[2] - args.ports[1] + 1 > 1000
    /\ CountUpto(log, "wait", Len(log)) = 2
    /\ CountUpto(log, "sleep", Len(log)) = 0

\* C3: with no explicit delay, a preset name that is no preset makes
\* run_selected_modules raise ValueError at once: no prober is instantiated,
\* no probe or wait() is issued, and no report is produced.
C3_UnknownPresetRejected ==
    (~args.has_delay /\ args.has_preset /\ args.preset = "turbo" /\ pc # "start")
    => /\ pc = "raised" /\ exc = "ValueError"
       /\ log = <<>>
       /\ results = <<>>
       /\ ~rate_limiter.present

C3_Witness ==
    /\ pc = "raised" /\ exc = "ValueError"
    /\ args.preset = "turbo" /\ args.modules = <<"ssl", "http", "tcp">>

\* C4: with a configured controller the TCP prober calls wait() exactly once
\* before each connection attempt: the k-th connect has exactly k wait()
\* calls before it, and a finished scan of N ports has made N wait() calls.
C4_WaitBeforeEachConnect ==
    rate_limiter.present
    => /\ \A i \in 1..Len(log) :
            log[i].ev = "connect"
            => CountUpto(log, "wait", i) = CountUpto(log, "connect", i)
       /\ CountUpto(TcpLog, "wait", Len(TcpLog))
            = CountUpto(TcpLog, "connect", Len(TcpLog))
              + (IF tcp.stage \in {"paced", "connecting"} THEN 1 ELSE 0)
       /\ ("tcp" \in Range(results)
             => CountUpto(TcpLog, "wait", Len(TcpLog))
                  = args.ports[2] - args.ports[1] + 1)

C4_Witness ==
    /\ rate_limiter.present /\ rate_limiter.delay = 0
    /\ "tcp" \in Range(results)
    /\ CountUpto(TcpLog, "wait", Len(TcpLog)) = 2
    /\ CountUpto(TcpLog, "connect", Len(TcpLog)) = 2

\* C5: a port whose connect_ex returned 0 is in open_ports and its entry has
\* status 'open'; a port whose connect_ex returned a non-zero code is not in
\* open_ports and its entry has status 'closed'.
C5_ConnectClassification ==
    \A i \in 1..Len(log) :
        log[i].ev = "connect"
        => LET e == TcpView.scan_results[CountUpto(log, "connect", i)]
           IN  /\ e.port = log[i].n
               /\ (log[i].out = "connected"
                     => e.status = "open" /\ e.port \in Range(TcpView.open_ports))
               /\ (log[i].out \in {"ECONNREFUSED", "EAGAIN", "ENETUNREACH"}
                     => e.status = "closed"
                        /\ e.port \notin Range(TcpView.open_ports))

C5_Witness ==
    /\ "tcp" \in Range(results)
    /\ Len(report.tcp.scan_results) = 2
    /\ report.tcp.scan_results[1].status = "closed"
    /\ report.tcp.scan_results[2].status = "open"
    /\ report.tcp.open_ports = <<81>>

\* C6 (the claim as stated): a per-port socket-level failure that is neither
\* a timeout nor a refusal, network unreachable for one, gives an entry of
\* status 'error' with a message, not 'closed'.
C6_OtherFailureIsError ==
    \A i \in 1..Len(log) :
        (log[i].ev = "connect" /\ log[i].out \in {"ENETUNREACH", "raise"})
        => LET e == TcpView.scan_results[CountUpto(log, "connect", i)]
           IN  e.status = "error" /\ e.error # ""

\* C7: a host that does not resolve makes the TCP prober raise
\* HostResolutionError before any connection attempt; the error leaves
\* run_selected_modules as it is, with no report and no later module run.
C7_HostResolutionAborts ==
    /\ \A i \in 1..Len(log) :
          (log[i].ev = "resolve" /\ log[i].out = "gaierror")
          => pc = "raised" /\ exc = "HostResolutionError" /\ i = Len(log)
    /\ exc = "HostResolutionError"
         => /\ pc = "raised"
            /\ results = <<>>
            /\ \A i \in 1..Len(log) :
                 log[i].ev \notin {"connect", "new_http", "http_get",
                                   "new_ssl", "tls_connect"}

C7_Witness ==
    /\ pc = "raised" /\ exc = "HostResolutionError"
    /\ args.modules = <<"ssl", "http", "tcp">>
    /\ log[Len(log)].out = "gaierror"

\* C8 (the claim as stated): with port bounds out of 1..65535, reversed or
\* malformed, the run ends in an error and no host resolution, connection
\* attempt, request or wait() has taken place.
C8_InvalidBoundsNoNetwork ==
    (args.ports[1] < 1 \/ args.ports[2] > 65535 \/ args.ports[1] > args.ports[2])
    => \A i \in 1..Len(log) :
         log[i].ev \notin {"resolve", "connect", "wait", "http_get", "tls_connect"}

\* the modules a selection stands for: the names listed, or tcp by default
C9_Effective ==
    IF args.has_modules /\ args.modules # <<>> THEN Range(args.modules) ELSE {"tcp"}

C9_IsWanted(m) == m \in C9_Effective

\* C9: the report holds exactly the selected modules among tcp, http, ssl,
\* inserted in the order tcp, http, ssl whatever the order of the selection,
\* and a prober that is not selected is never instantiated or invoked.
C9_ReportKeys ==
    LET wanted == SelectSeq(<<"tcp", "http", "ssl">>, C9_IsWanted)
    IN  /\ pc = "done" => results = wanted
        /\ \E k \in 0..Len(wanted) : results = SubSeq(wanted, 1, k)
        /\ \A i \in 1..Len(log) :
             /\ log[i].ev \in {"new_tcp", "resolve", "connect"} => C9_IsWanted("tcp")
             /\ log[i].ev \in {"new_http", "http_get"} => C9_IsWanted("http")
             /\ log[i].ev \in {"new_ssl", "tls_connect"} => C9_IsWanted("ssl")

C9_Witness ==
    /\ pc = "done"
    /\ args.modules = <<"ssl", "tcp">>
    /\ results = <<"tcp", "ssl">>
    /\ \A i \in 1..Len(log) : log[i].ev \notin {"new_http", "http_get"}

\* C10: with the selection empty or missing, the run is the TCP prober
\* alone: the report's only key is 'tcp' and neither the HTTP nor the TLS
\* prober is instantiated or invoked.
C10_DefaultTcpOnly ==
    (~args.has_modules \/ args.modules = <<>>)
    => /\ pc = "done" => results = <<"tcp">>
       /\ pc \notin {"http", "ssl"}
       /\ \A i \in 1..Len(log) :
            log[i].ev \notin {"new_http", "http_get", "new_ssl", "tls_connect"}

C10_Witness ==
    /\ pc = "done"
    /\ args.has_modules /\ args.modules = <<>>
    /\ results = <<"tcp">>
    /\ Len(report.tcp.scan_results) = 2

\* C11: a failure that is a structured result aborts nothing.  A TLS probe
\* that fails is stored under "ssl" as ok = false with an error, and the run
\* returns a report holding every selected module; a port whose TCP or HTTP
\* probe failed still has its entry, so a returned report has one entry per
\* probed port; and the run is never left by an exception right after a TLS
\* attempt, a TCP connect, or an HTTP response or RequestException.
C11_StructuredFailureNoAbort ==
    /\ \A i \in 1..Len(log) :
         log[i].ev = "tls_connect" =>
           /\ pc = "done"
           /\ "ssl" \in Range(results)
           /\ log[i].out # "handshake" =>
                ~report.ssl.ok /\ report.ssl.error.has
    /\ pc = "done" =>
         /\ \A m \in {"tcp", "http", "ssl"} :
              C9_IsWanted(m) => m \in Range(results)
         /\ C9_IsWanted("tcp") =>
              /\ Len(report.tcp.scan_results) = PortCount(args)
              /\ Len(report.tcp.scan_results) = CountUpto(log, "connect", Len(log))
         /\ C9_IsWanted("http") =>
              /\ Len(report.http.scan_results) = PortCount(args)
              /\ Len(report.http.scan_results) = CountUpto(log, "http_get", Len(log))
    /\ (pc = "raised" /\ log # <<>>) =>
         LET last == log[Len(log)]
         IN  /\ last.ev \notin {"tls_connect", "connect"}
             /\ last.ev = "http_get" => last.out = "Exception"

C11_Witness ==
    /\ pc = "done"
    /\ args.modules = <<"ssl", "http", "tcp">>
    /\ results = <<"tcp", "http", "ssl">>
    /\ ~report.ssl.ok
    /\ report.ssl.error = Some(<<"Socket error: ", "timed out">>)
    /\ Len(report.tcp.scan_results) = 2
    /\ report.tcp.scan_results[1].status = "error"
    /\ Len(report.http.scan_results) = 2
    /\ "error" \in report.http.scan_results[2].fields

\* C12: an interrupt in the middle of a scan stops the probes and the scan
\* returns: the run ends with a result, and the entries of the ports
\* completed before the interrupt are in it.
C12_InterruptReturnsPartial ==
    \A i \in 1..Len(log) :
        log[i].ev = "interrupt" =>
          /\ \A j \in (i + 1)..Len(log) :
               log[j].ev \notin {"connect", "http_get", "tls_connect"}
          /\ pc = "done"
          /\ Len(report.tcp.scan_results) = CountUpto(log, "connect", i)
          /\ Len(report.http.scan_results) = CountUpto(log, "http_get", i)

\* C13: the TLS prober raises for no transport behaviour and returns one of
\* three failures: no peer certificate gives ok = false with an error
\* holding "No certificate presented"; an ssl.SSLError (an OSError subclass)
\* gives ok = false with the prefix "SSL error: ", never "Socket error: ";
\* any other OSError gives ok = false with the prefix "Socket error: ".
C13_TlsFailureCategories ==
    /\ pc # "raised"
    /\ pc = "done" =>
         LET h == tls.handshake
             r == report.ssl
         IN  /\ (h.kind = "handshake" /\ ~h.peer.present) =>
                  /\ ~r.ok
                  /\ r.error.has
                  /\ "No certificate presented" \in Range(r.error.val)
             /\ h.kind \in {"SSLError", "SSLCertVerificationError"} =>
                  /\ ~r.ok
                  /\ r.error.has
                  /\ r.error.val = <<"SSL error: ", h.msg>>
             /\ h.kind \in {"OSError", "ConnectionRefusedError", "TimeoutError",
                            "gaierror"} =>
                  /\ ~r.ok
                  /\ r.error.has
                  /\ r.error.val = <<"Socket error: ", h.msg>>

C13_Witness ==
    /\ pc = "done"
    /\ tls.handshake.kind = "SSLCertVerificationError"
    /\ ~report.ssl.ok
    /\ report.ssl.error = Some(<<"SSL error: ", "certificate verify failed">>)

\* the fields of a datetime, most significant first
C14_Fields(dt) ==
    <<dt.year, dt.month, dt.day, dt.hour, dt.minute, dt.second, dt.microsecond>>

\* a is a later instant than b
C14_Later(a, b) ==
    \E i \in 1..7 :
        /\ C14_Fields(a)[i] > C14_Fields(b)[i]
        /\ \A j \in 1..(i - 1) : C14_Fields(a)[j] = C14_Fields(b)[j]

\* the instant a notAfter text of the certificate format names
C14_NotAfter(text) ==
    CASE text \in {<<"D", "e", "c", " ", "3", "1", " ", "2", "3", ":", "5", "9", ":", "5", "9", " ", "2", "0", "2", "5", " ", "G", "M", "T">>, <<"d", "e", "c", " ", "3", "1", " ", "2", "3", ":", "5", "9", ":", "5", "9", " ", "2", "0", "2", "5", " ", "u", "t", "c">>,
                   <<"D", "e", "c", " ", " ", "3", "1", " ", " ", "2", "3", ":", "5", "9", ":", "5", "9", " ", " ", "2", "0", "2", "5", " ", " ", "G", "M", "T">>}
           -> datetime(2025, 12, 31, 23, 59, 59, 0)
      [] text = <<"J", "a", "n", " ", " ", "1", " ", "0", "0", ":", "0", "0", ":", "0", "0", " ", "2", "0", "2", "6", " ", "G", "M", "T">> -> datetime(2026, 1, 1, 0, 0, 0, 0)
      [] text = <<"F", "e", "b", " ", "2", "9", " ", "1", "2", ":", "0", "0", ":", "0", "0", " ", "2", "0", "2", "4", " ", "G", "M", "T">> -> datetime(2024, 2, 29, 12, 0, 0, 0)

C14_Parsed ==
    {<<"D", "e", "c", " ", "3", "1", " ", "2", "3", ":", "5", "9", ":", "5", "9", " ", "2", "0", "2", "5", " ", "G", "M", "T">>, <<"d", "e", "c", " ", "3", "1", " ", "2", "3", ":", "5", "9", ":", "5", "9", " ", "2", "0", "2", "5", " ", "u", "t", "c">>,
     <<"D", "e", "c", " ", " ", "3", "1", " ", " ", "2", "3", ":", "5", "9", ":", "5", "9", " ", " ", "2", "0", "2", "5", " ", " ", "G", "M", "T">>, <<"J", "a", "n", " ", " ", "1", " ", "0", "0", ":", "0", "0", ":", "0", "0", " ", "2", "0", "2", "6", " ", "G", "M", "T">>,
     <<"F", "e", "b", " ", "2", "9", " ", "1", "2", ":", "0", "0", ":", "0", "0", " ", "2", "0", "2", "4", " ", "G", "M", "T">>}

\* whole days from now to na, rounded down, at the clock readings around
\* two of the expiry instants
C14_Days(na, now, days) ==
    /\ na = datetime(2025, 12, 31, 23, 59, 59, 0) =>
         /\ now = datetime(2025, 12, 30, 23, 59, 59, 0) => days = 1
         /\ now = datetime(2025, 12, 30, 23, 59, 59, 500000) => days = 0
         /\ now = datetime(2025, 12, 31, 0, 0, 0, 0) => days = 0
         /\ now = datetime(2025, 12, 31, 23, 59, 59, 0) => days = 0
         /\ now = datetime(2025, 12, 31, 23, 59, 59, 500000) => days = -1
         /\ now = datetime(2026, 1, 1, 0, 0, 0, 0) => days = -1
         /\ now = datetime(2026, 1, 1, 23, 59, 59, 0) => days = -1
         /\ now = datetime(2026, 1, 1, 23, 59, 59, 500000) => days = -2
         /\ now = datetime(2024, 3, 1, 11, 59, 59, 999999) => days = 670
    /\ na = datetime(2024, 2, 29, 12, 0, 0, 0) =>
         /\ now = datetime(2024, 2, 28, 12, 0, 0, 1) => days = 0
         /\ now = datetime(2024, 3, 1, 11, 59, 59, 999999) => days = -1
         /\ now = datetime(2025, 12, 31, 0, 0, 0, 0) => days = -671

\* C14: for a notAfter that parses, days_left is the day difference
\* notAfter - now rounded down and expired holds exactly when now is later
\* than notAfter (so less than a day past expiry gives -1 and expired, less
\* than a day before gives 0 and not expired); when days_left is unknown,
\* expired is false.
C14_DaysLeftFloor ==
    (pc = "done" /\ report.ssl.ok) =>
      LET r == report.ssl
          notAfter == tls.handshake.peer.notAfter
      IN  /\ ~r.days_left.has => ~r.expired
          /\ (notAfter.kind = "str" /\ notAfter.text \in C14_Parsed) =>
               LET na == C14_NotAfter(notAfter.text)
               IN  /\ r.days_left.has
                   /\ r.expired <=> C14_Later(tls.now, na)
                   /\ r.days_left.val < 0 <=> C14_Later(tls.now, na)
                   /\ C14_Days(na, tls.now, r.days_left.val)

C14_Witness ==
    /\ pc = "done"
    /\ report.ssl.ok
    /\ tls.handshake.peer.notAfter = Str(<<"D", "e", "c", " ", "3", "1", " ", "2", "3", ":", "5", "9", ":", "5", "9", " ", "2", "0", "2", "5", " ", "G", "M", "T">>)
    /\ tls.now = datetime(2025, 12, 31, 23, 59, 59, 500000)
    /\ report.ssl.days_left = [has |-> TRUE, val |-> -1]
    /\ report.ssl.expired

\* the date values that are absent, no string, or in no accepted format
C15_Unreadable ==
    {NoValue, NonStr, Str(<<>>), Str(<<"2", "0", "2", "4", "-", "0", "1", "-", "0", "1", "T", "0", "0", ":", "0", "0", ":", "0", "0", "Z">>),
     Str(<<"2", "0", "2", "5", "-", "1", "2", "-", "3", "1", "T", "2", "3", ":", "5", "9", ":", "5", "9", "Z">>), Str(<<"D", "e", "c", " ", "3", "1", " ", "2", "3", ":", "5", "9", ":", "5", "9", " ", "2", "0", "2", "5">>),
     Str(<<"D", "e", "c", " ", "3", "1", " ", "2", "4", ":", "0", "0", ":", "0", "0", " ", "2", "0", "2", "5", " ", "G", "M", "T">>)}

\* C15: a notBefore or notAfter that is missing, is no string or is in no
\* accepted format is no failure: the result has ok = true, the matching
\* valid_from / valid_until is null, and for notAfter days_left is null and
\* expired false; a date in the certificate format is not null.
C15_UnparsedDateAbsent ==
    (pc = "done" /\ tls.handshake.kind = "handshake"
       /\ tls.handshake.peer.present /\ ~args.no_verify) =>
      LET r == report.ssl
          cert == tls.handshake.peer
      IN  /\ r.ok
          /\ ~r.error.has
          /\ cert.notBefore \in C15_Unreadable => r.valid_from = None
          /\ cert.notAfter \in C15_Unreadable =>
               /\ r.valid_until = None
               /\ ~r.days_left.has
               /\ ~r.expired
          /\ cert.notBefore = Str(<<"J", "a", "n", " ", " ", "1", " ", "0", "0", ":", "0", "0", ":", "0", "0", " ", "2", "0", "2", "4", " ", "G", "M", "T">>) =>
               r.valid_from = Some(<<"2", "0", "2", "4", "-", "0", "1", "-", "0", "1", "T", "0", "0", ":", "0", "0", ":", "0", "0", "+", "0", "0", ":", "0", "0">>)
          /\ cert.notAfter = Str(<<"D", "e", "c", " ", "3", "1", " ", "2", "3", ":", "5", "9", ":", "5", "9", " ", "2", "0", "2", "5", " ", "G", "M", "T">>) =>
               r.valid_until = Some(<<"2", "0", "2", "5", "-", "1", "2", "-", "3", "1", "T", "2", "3", ":", "5", "9", ":", "5", "9", "+", "0", "0", ":", "0", "0">>)

C15_Witness ==
    /\ pc = "done"
    /\ report.ssl.ok
    /\ tls.handshake.peer.notBefore = Str(<<"J", "a", "n", " ", " ", "1", " ", "0", "0", ":", "0", "0", ":", "0", "0", " ", "2", "0", "2", "4", " ", "G", "M", "T">>)
    /\ tls.handshake.peer.notAfter = Str(<<"2", "0", "2", "5", "-", "1", "2", "-", "3", "1", "T", "2", "3", ":", "5", "9", ":", "5", "9", "Z">>)
    /\ report.ssl.valid_from.has
    /\ report.ssl.valid_until = None
    /\ ~report.ssl.days_left.has
    /\ ~report.ssl.expired

\* the HTTP result container: the prober's own lists while scan() runs,
\* the stored result once it has returned
HttpView ==
    IF http.stage \in {"loop", "paced"}
    THEN [open_ports |-> http.open_ports, scan_results |-> http.scan_results]
    ELSE report.http

IsOpenRecord(r) == r.status = "open"

IsHttpGet(e) == e.ev = "http_get"

PortsOf(records) == [i \in 1..Len(records) |-> records[i].port]

\* C16 (as stated): a port whose GET returned a response is "open" exactly
\* when the status code lies in the 2xx-3xx range and "closed" otherwise;
\* open_ports lists the ports of the "open" records in the order of the
\* supplied list, and every such record carries the status code.
C16_OpenIffSuccessRange ==
    LET v == HttpView
    IN  /\ \A i \in 1..Len(v.scan_results) :
             LET r == v.scan_results[i]
             IN  /\ r.status \in {"open", "closed"}
                 /\ r.status = "open" => "status_code" \in r.fields
                 /\ "status_code" \in r.fields =>
                      (r.status = "open"
                         <=> (200 <= r.status_code /\ r.status_code < 400))
        /\ v.open_ports = PortsOf(SelectSeq(v.scan_results, IsOpenRecord))
        /\ PortsOf(v.scan_results) = SubSeq(http.ports, 1, Len(v.scan_results))

\* C16 (amended): a port whose GET returned a response is "open" exactly
\* when the status code is no client or server error, that is outside
\* 400..599 (so 2xx-3xx, and also 1xx and codes from 600 up), and "closed"
\* otherwise; open_ports lists the ports of the "open" records in the order
\* of the supplied list, and every such record carries the status code.
C16_OpenIffNoErrorStatus ==
    LET v == HttpView
    IN  /\ \A i \in 1..Len(v.scan_results) :
             LET r == v.scan_results[i]
             IN  /\ r.status \in {"open", "closed"}
                 /\ r.status = "open" => "status_code" \in r.fields
                 /\ "status_code" \in r.fields =>
                      (r.status = "closed"
                         <=> (400 <= r.status_code /\ r.status_code <= 599))
        /\ v.open_ports = PortsOf(SelectSeq(v.scan_results, IsOpenRecord))
        /\ PortsOf(v.scan_results) = SubSeq(http.ports, 1, Len(v.scan_results))

C16_Witness ==
    /\ pc = "done"
    /\ http.ports = <<8080, 80>>
    /\ report.http.open_ports = <<80>>
    /\ report.http.scan_results[1].status_code = 500
    /\ report.http.scan_results[2].status_code = 999

\* C17: a GET that fails at the transport level (a RequestException) leaves
\* a "closed" record with an error field and no status_code for its port,
\* adds nothing to open_ports and does not end the scan: the scan returns
\* one record per supplied port, in the order of the list.
C17_TransportFailureClosed ==
    LET v == HttpView
        gets == SelectSeq(log, IsHttpGet)
    IN  /\ \A i \in 1..Len(gets) :
             gets[i].out = "RequestException" =>
               /\ i = Len(gets) => pc # "raised"
               /\ i <= Len(v.scan_results)
               /\ LET r == v.scan_results[i]
                  IN  /\ r.port = gets[i].n
                      /\ r.status = "closed"
                      /\ "error" \in r.fields
                      /\ "status_code" \notin r.fields
        /\ v.open_ports = PortsOf(SelectSeq(v.scan_results, IsOpenRecord))
        /\ pc = "done" => PortsOf(v.scan_results) = http.ports

C17_Witness ==
    /\ pc = "done"
    /\ http.ports = <<8080, 80>>
    /\ report.http.scan_results[1].fields = {"port", "status", "server", "error", "url"}
    /\ report.http.scan_results[1].error = <<"Connection refused">>
    /\ report.http.scan_results[2].status = "open"
    /\ report.http.open_ports = <<80>>

\* C18: when the GET for a port raises an exception that is no
\* RequestException (a plain Exception), scan does not raise: its result has
\* a record for that port with an error field and the URL http://host:port/.
C18_PlainExceptionHandled ==
    \A i \in 1..Len(log) :
        (log[i].ev = "http_get" /\ log[i].out = "Exception") =>
          /\ pc # "raised"
          /\ \E k \in 1..Len(HttpView.scan_results) :
               LET r == HttpView.scan_results[k]
               IN  /\ r.port = log[i].n
                   /\ "error" \in r.fields
                   /\ r.url = Url(args.host, log[i].n)

\* kw occurs in text when case is ignored
C19_Matches(text, kw) ==
    \E i \in 1..Len(text) :
        /\ i + Len(kw) - 1 <= Len(text)
        /\ \A k \in 1..Len(kw) : LowerChar(text[i + k - 1]) = kw[k]

\* the family of a Server header by the fixed priority, else the part before
\* the first "/" capitalized
C19_Family(text) ==
    IF C19_Matches(text, <<"a", "p", "a", "c", "h", "e">>) THEN <<"A", "p", "a", "c", "h", "e">>
    ELSE IF C19_Matches(text, <<"n", "g", "i", "n", "x">>) THEN <<"N", "g", "i", "n", "x">>
    ELSE IF C19_Matches(text, <<"i", "i", "s">>) \/ C19_Matches(text, <<"m", "i", "c", "r", "o", "s", "o", "f", "t">>)
         THEN <<"M", "i", "c", "r", "o", "s", "o", "f", "t", " ", "I", "I", "S">>
    ELSE IF C19_Matches(text, <<"l", "i", "g", "h", "t", "t", "p", "d">>) THEN <<"L", "i", "g", "h", "t", "t", "p", "d">>
    ELSE IF C19_Matches(text, <<"g", "u", "n", "i", "c", "o", "r", "n">>) THEN <<"G", "u", "n", "i", "c", "o", "r", "n">>
    ELSE IF C19_Matches(text, <<"c", "a", "d", "d", "y">>) THEN <<"C", "a", "d", "d", "y">>
    ELSE capitalize(BeforeSlash(text))

\* the examples of the family rule
C19_Examples(text, server) ==
    /\ text = <<"C", "u", "s", "t", "o", "m", "T", "h", "i", "n", "g", "/", "2", ".", "0">> => server = <<"C", "u", "s", "t", "o", "m", "t", "h", "i", "n", "g">>
    /\ text = <<"M", "o", "c", "k", "S", "e", "r", "v", "e", "r">> => server = <<"M", "o", "c", "k", "s", "e", "r", "v", "e", "r">>
    /\ text = <<"n", "g", "i", "n", "x", "/", "1", ".", "1", "8">> => server = <<"N", "g", "i", "n", "x">>
    /\ text = <<"n", "g", "i", "n", "x", "-", "a", "p", "a", "c", "h", "e">> => server = <<"A", "p", "a", "c", "h", "e">>
    /\ text = <<"M", "i", "c", "r", "o", "s", "o", "f", "t", "-", "H", "T", "T", "P", "A", "P", "I">> => server = <<"M", "i", "c", "r", "o", "s", "o", "f", "t", " ", "I", "I", "S">>
    /\ text = <<"L", "I", "G", "H", "T", "T", "P", "D">> => server = <<"L", "i", "g", "h", "t", "t", "p", "d">>

\* C19 (as stated): the server field of a response record is the family the
\* Server header matches, ignoring case, by substring and in the priority
\* apache, nginx, iis/microsoft, lighttpd, gunicorn, caddy; a header that is
\* present and matches none gives the part before its first "/",
\* capitalized; an absent header gives "Unknown".
C19_ServerFamily ==
    (http.stage = "loop" /\ http.resp.kind = "response") =>
      LET h == http.resp.server
          server == http.scan_results[Len(http.scan_results)].server
      IN  /\ ~h.has => server = <<"U", "n", "k", "n", "o", "w", "n">>
          /\ h.has => server = C19_Family(h.text) /\ C19_Examples(h.text, server)

\* C19 (amended): as above, except that a header that is present and empty
\* gives "Unknown", as an absent one does.
C19_ServerFamilyOrUnknown ==
    (http.stage = "loop" /\ http.resp.kind = "response") =>
      LET h == http.resp.server
          server == http.scan_results[Len(http.scan_results)].server
      IN  /\ (~h.has \/ h.text = <<>>) => server = <<"U", "n", "k", "n", "o", "w", "n">>
          /\ (h.has /\ h.text # <<>>) =>
               server = C19_Family(h.text) /\ C19_Examples(h.text, server)

C19_Witness ==
    /\ http.stage = "loop"
    /\ http.resp.kind = "response"
    /\ http.resp.server = Header(<<"M", "i", "c", "r", "o", "s", "o", "f", "t", "-", "I", "I", "S", "/", "1", "0">>)
    /\ http.scan_results[Len(http.scan_results)].server = <<"M", "i", "c", "r", "o", "s", "o", "f", "t", " ", "I", "I", "S">>

\* C20: a controller whose delay is zero or negative never sleeps in
\* wait(), with jitter on or off, and building a controller with any delay,
\* zero included, raises nothing.
C20_NoSleepWithoutDelay ==
    /\ (rate_limiter.present /\ rate_limiter.delay <= 0) =>
         \A i \in 1..Len(log) : log[i].ev # "sleep"
    /\ exc # "ZeroDivisionError"
    /\ args \in DirectArgs => pc # "raised"

C20_Witness ==
    /\ pc = "constructed"
    /\ rate_limiter = RateLimiter(0, TRUE)
    /\ WaitCalls(log) = 2
    /\ \A i \in 1..Len(log) : log[i].ev # "sleep"

\* C21: with a delay above zero every wait() requests one sleep: of exactly
\* the delay when jitter is off, and of the delay times a multiplier between
\* 0.5 and 2.0 when jitter is on; the sleep requested is therefore within
\* [delay / 2, 2 * delay] and is never zero or negative.
C21_SleepWithinJitterBounds ==
    (pc \in {"built", "constructed"} /\ rate_limiter.present) =>
        \A i \in 1..Len(log) :
            /\ (log[i].ev = "wait" /\ rate_limiter.delay > 0)
                 => (i < Len(log) /\ log[i + 1].ev = "sleep")
            /\ log[i].ev = "sleep"
                 => /\ rate_limiter.delay > 0
                    /\ (~rate_limiter.jitter => log[i].n = rate_limiter.delay)
                    /\ 2 * log[i].n >= rate_limiter.delay
                    /\ log[i].n <= 2 * rate_limiter.delay
                    /\ log[i].n > 0
                    /\ i > 1 /\ log[i - 1].ev = "wait"

C21_Witness ==
    /\ pc = "built"
    /\ rate_limiter = RateLimiter(1000, TRUE)
    /\ \E i, j \in 1..Len(log) :
         /\ log[i].ev = "sleep" /\ log[i].n = 500
         /\ log[j].ev = "sleep" /\ log[j].n = 2000

\* C22: the presets have fixed values: with no explicit delay, 'stealth'
\* builds delay 1000 ms with jitter on, 'normal' delay 50 ms with jitter off,
\* 'aggressive' delay 10 ms with jitter off, 'none' no controller (logged as
\* disabled; the range is within the safety threshold), and arguments without
\* a preset build the 'normal' controller.
C22_PresetValues ==
    (pc = "built" /\ ~args.has_delay) =>
        /\ (args.has_preset /\ args.preset = "stealth")
             => rate_limiter = [present |-> TRUE, delay |-> 1000, jitter |-> TRUE]
        /\ (args.has_preset /\ args.preset = "normal")
             => rate_limiter = [present |-> TRUE, delay |-> 50, jitter |-> FALSE]
        /\ (args.has_preset /\ args.preset = "aggressive")
             => rate_limiter = [present |-> TRUE, delay |-> 10, jitter |-> FALSE]
        /\ (args.has_preset /\ args.preset = "none")
             => /\ Len(log) >= 1 /\ log[1].ev = "warn_disabled"
                /\ (args.ports[2] - args.ports[1] + 1 <= 1000
                      => rate_limiter = [present |-> FALSE, delay |-> 0,
                                         jitter |-> FALSE])
        /\ ~args.has_preset
             => rate_limiter = [present |-> TRUE, delay |-> 50, jitter |-> FALSE]
        /\ (~args.has_preset \/ args.preset # "none")
             => \A i \in 1..Len(log) : log[i].ev # "warn_disabled"

C22_Witness ==
    /\ pc = "built" /\ ~args.has_delay
    /\ args.has_preset /\ args.preset = "stealth"
    /\ args.ports = <<1, 1500>>
    /\ rate_limiter.jitter
    /\ \E i \in 1..Len(log) : log[i].ev = "sleep" /\ log[i].n = 1300

\* C23: the safety warning is logged exactly when the aggressive controller
\* is substituted: once, carrying the port count, on every run with preset
\* 'none', no explicit delay and more than 1000 ports; never when the range
\* has at most 1000 ports, when an explicit delay is given, or when the
\* preset is rejected.
C23_WarningIffSubstitution ==
    LET count == args.ports[2] - args.ports[1] + 1
        warnings == {i \in 1..Len(log) : log[i].ev = "warn_safety"}
        substituted == /\ ~args.has_delay
                       /\ args.has_preset /\ args.preset = "none"
                       /\ rate_limiter.present
    IN  /\ pc = "built"
          => /\ (warnings # {}) <=> (~args.has_delay /\ args.has_preset
                                     /\ args.preset = "none" /\ count > 1000)
             /\ (warnings # {}) <=> substituted
             /\ Cardinality(warnings) <= 1
             /\ \A i \in warnings : log[i].n = count
             /\ substituted
                  => rate_limiter = [present |-> TRUE, delay |-> 10,
                                     jitter |-> FALSE]
        /\ pc \in {"limiter", "raised"} => warnings = {}

C23_Witness ==
    /\ pc = "built" /\ ~args.has_delay /\ args.preset = "none"
    /\ args.ports = <<1, 1500>>
    /\ Len(log) >= 2
    /\ log[2] = Event("warn_safety", 1500, "")
    /\ rate_limiter.present

\* C24: the orchestrator routes the inputs per module: the TCP prober scans
\* the range low-high itself, the HTTP prober is called on the list of every
\* port low..high in ascending order, and the TLS prober is invoked exactly
\* once, on the configured TLS port alone (443 when none is configured),
\* whatever the size of the range.
C24_RoutingPerModule ==
    LET low == args.ports[1]
        high == args.ports[2]
        attempts == {i \in 1..Len(log) : log[i].ev = "tls_connect"}
        wanted == args.has_modules /\ args.modules # <<>>
                  /\ \E k \in 1..Len(args.modules) : args.modules[k] = "ssl"
    IN  /\ (pc = "tcp" /\ tcp.stage \in {"loop", "paced", "connecting"})
             => /\ tcp.end = high
                /\ tcp.port - Len(tcp.scan_results) = low
        /\ (http.stage \in {"loop", "paced"} \/ "http" \in Range(results))
             => /\ Len(http.ports) = (IF high < low THEN 0 ELSE high - low + 1)
                /\ \A i \in 1..Len(http.ports) : http.ports[i] = low + i - 1
        /\ Cardinality(attempts) <= 1
        /\ \A i \in attempts :
             log[i].n = (IF args.has_ssl_port THEN args.ssl_port ELSE 443)
        /\ ~wanted => attempts = {}
        /\ ((pc = "done" /\ wanted) \/ "ssl" \in Range(results))
             => Cardinality(attempts) = 1

C24_Witness ==
    /\ pc = "done"
    /\ args.modules = <<"ssl", "http", "tcp">>
    /\ args.ports = <<80, 81>>
    /\ results = <<"tcp", "http", "ssl">>
    /\ Len(report.tcp.scan_results) = 2
    /\ http.ports = <<80, 81>>
    /\ \E i \in 1..Len(log) : log[i].ev = "tls_connect" /\ log[i].n = 443

IsConnect(e) == e.ev = "connect"

\* C25: a TCP scan probes the ports of its range once each, in ascending
\* order from the low end: after every add_result the entries of
\* scan_results are the ports probed so far, in that order; open_ports is
\* the subsequence of the ports whose entry is "open", in the same order and
\* without duplicates; the finished scan has high - low + 1 entries.
C25_EveryPortOnceAscending ==
    LET v == TcpView
        probes == SelectSeq(log, IsConnect)
    IN  /\ Len(v.scan_results) = Len(probes)
        /\ \A i \in 1..Len(probes) :
             /\ probes[i].n = args.ports[1] + i - 1
             /\ v.scan_results[i].port = probes[i].n
        /\ v.open_ports = PortsOf(SelectSeq(v.scan_results, IsOpenRecord))
        /\ \A i, j \in 1..Len(v.open_ports) :
             i < j => v.open_ports[i] < v.open_ports[j]
        /\ (pc = "tcp" /\ tcp.stage \in {"loop", "paced", "connecting"})
             => tcp.port = args.ports[1] + Len(probes)
        /\ "tcp" \in Range(results)
             => Len(v.scan_results) = args.ports[2] - args.ports[1] + 1

C25_Witness ==
    /\ "tcp" \in Range(results)
    /\ args.ports = <<80, 81>>
    /\ PortsOf(report.tcp.scan_results) = <<80, 81>>
    /\ report.tcp.scan_results[1].status = "closed"
    /\ report.tcp.scan_results[2].status = "open"
    /\ report.tcp.open_ports = <<81>>

\* C26: every PortResult of the TCP prober has status open, closed or
\* error; its service is non-empty only for an open port (the name looked
\* up, or "unknown" when the lookup fails) and empty for closed and error;
\* its error is non-empty only when the status is error.
C26_PortResultShape ==
    LET v == TcpView
    IN  \A i \in 1..Len(v.scan_results) :
            LET r == v.scan_results[i]
            IN  /\ r.status \in {"open", "closed", "error"}
                /\ r.service # "" => r.status = "open"
                /\ r.status = "open" => r.service # ""
                /\ r.status \in {"closed", "error"} => r.service = ""
                /\ r.error # "" => r.status = "error"

C26_Witness ==
    /\ pc = "tcp" /\ tcp.stage = "loop"
    /\ Len(tcp.scan_results) = 2
    /\ tcp.scan_results[1].status = "open"
    /\ tcp.scan_results[1].service = "unknown"
    /\ tcp.scan_results[2].status = "error"
    /\ tcp.scan_results[2].error # ""
    /\ tcp.scan_results[2].service = ""

\* C27: the socket of a TCP probe is closed when the probe of its port
\* returns, whatever the outcome (open, closed, error raised inside): no
\* socket of an earlier probe is open when a probe starts or when the scan
\* ends, and at most one probe socket is open at any moment.
C27_ProbeSocketClosed ==
    /\ tcp.sockets = (IF pc = "tcp" /\ tcp.stage = "connecting" THEN 1 ELSE 0)
    /\ tcp.peak <= 1
    /\ \A o \in ConnectOutcomes :
         (pc = "tcp" /\ tcp.stage = "connecting")
           => /\ OpenAfter(tcp.sockets, socket_steps(o)) = 0
              /\ PeakOpen(tcp.sockets, socket_steps(o)) = 1

C27_Witness ==
    /\ pc = "tcp" /\ tcp.stage = "loop"
    /\ tcp.port > tcp.end
    /\ Len(tcp.scan_results) = 2
    /\ tcp.scan_results[1].status = "error"
    /\ tcp.scan_results[2].status = "open"
    /\ tcp.peak = 1
    /\ tcp.sockets = 0

\* the wait() calls logged between entry i and the nearest earlier entry
\* that is neither a wait() nor its sleep
WaitsBefore(l, i) ==
    LET earlier == {j \in 1..(i - 1) : l[j].ev \notin {"wait", "sleep"}}
        from == IF earlier = {} THEN 0
                ELSE CHOOSE j \in earlier : \A k \in earlier : k <= j
    IN  Cardinality({j \in (from + 1)..(i - 1) : l[j].ev = "wait"})

C28_OneWaitPerRequest ==
    rate_limiter.present =>
        /\ \A i \in 1..Len(log) :
             /\ log[i].ev \in {"http_get", "tls_connect"}
                  => WaitsBefore(log, i) = 1
             /\ log[i].ev = "sleep"
                  => IF rate_limiter.jitter
                     THEN /\ 2 * log[i].n >= rate_limiter.delay
                          /\ log[i].n <= 2 * rate_limiter.delay
                     ELSE log[i].n = rate_limiter.delay
        /\ \A i \in 1..Len(log) :
             log[i].ev = "wait"
               => LET k == IF i < Len(log) /\ log[i + 1].ev = "sleep"
                           THEN i + 2 ELSE i + 1
                  IN  IF k <= Len(log)
                      THEN log[k].ev \in {"connect", "http_get", "tls_connect",
                                          "interrupt"}
                      ELSE \/ tcp.stage \in {"paced", "connecting"}
                           \/ http.stage = "paced"
                           \/ tls.stage = "paced"
        /\ "http" \in Range(results)
             => Len(SelectSeq(log, IsHttpGet)) = Len(http.ports)
        /\ Cardinality({i \in 1..Len(log) : log[i].ev = "tls_connect"}) <= 1

C28_ControllerKept ==
    pc # "start" => rate_limiter' = rate_limiter

\* C28: with a configured controller the HTTP prober calls wait() exactly
\* once before each request, failing requests included (N ports give N
\* waits), and the TLS prober exactly once before its single connection
\* attempt; every prober of the run paces on the one controller the
\* orchestrator built, whose delay and jitter never change afterwards.
C28_WaitBeforeEachRequest ==
    [](C28_OneWaitPerRequest) /\ [][C28_ControllerKept]_vars

C28_Witness ==
    /\ pc = "done"
    /\ rate_limiter = RateLimiter(300, FALSE)
    /\ args.modules = <<"ssl", "http">>
    /\ args.ports = <<80, 81>>
    /\ Len(SelectSeq(log, IsHttpGet)) = 2
    /\ \E i \in 3..Len(log) :
         /\ log[i].ev = "http_get" /\ log[i].out = "RequestException"
         /\ log[i - 1] = Event("sleep", 300, "")
         /\ log[i - 2].ev = "wait"
    /\ log[Len(log)].ev = "tls_connect"
    /\ log[Len(log) - 1] = Event("sleep", 300, "")
    /\ log[Len(log) - 2].ev = "wait"
    /\ CountUpto(log, "wait", Len(log)) = 3

\* C29: every result the TLS prober returns has error set exactly when ok
\* is false; when ok is false, issued_to, issued_by, valid_from, valid_until
\* and days_left are absent and expired is false; when ok is true, expired
\* is true only if days_left is present and negative.
C29_TlsResultShape ==
    pc = "done" =>
        LET r == report.ssl
        IN  /\ r.error.has <=> ~r.ok
            /\ ~r.ok => /\ ~r.issued_to.has /\ ~r.issued_by.has
                        /\ ~r.valid_from.has /\ ~r.valid_until.has
                        /\ ~r.days_left.has
                        /\ ~r.expired
            /\ (r.ok /\ r.expired) => (r.days_left.has /\ r.days_left.val < 0)
            /\ (r.ok /\ r.days_left.has /\ r.days_left.val < 0) => r.expired

C29_Witness ==
    /\ pc = "done"
    /\ tls.handshake.kind = "handshake"
    /\ report.ssl.ok /\ ~report.ssl.error.has
    /\ report.ssl.expired
    /\ report.ssl.days_left = [has |-> TRUE, val |-> -1]
    /\ report.ssl.issued_to.has

\* C30 (as stated): with verification disabled, a handshake that completes
\* with a server presenting a certificate, a self-signed or otherwise
\* invalid one included, gives ok = true with the common names of the
\* certificate's subject and issuer and its validity window, and not the
\* ok = false result "No certificate presented".
C30_UnverifiedCertificateReported ==
    (pc = "done" /\ args.no_verify
       /\ tls.handshake.kind = "handshake" /\ tls.handshake.peer.present)
    => LET cert == tls.handshake.peer
           r == report.ssl
       IN  /\ r.ok
           /\ r.error # Some(<<"No certificate presented">>)
           /\ r.issued_to = dict_get(flatten(cert.subject), "commonName")
           /\ r.issued_by = dict_get(flatten(cert.issuer), "commonName")
           /\ r.valid_from.has = parse_dt(cert.notBefore).has
           /\ r.valid_until.has = parse_dt(cert.notAfter).has

====
